---- MODULE Spec2Model ----
(***************************************************************************)
(* The difference-detection engine of prompt-to-puzzle                     *)
(* (src/services/imageAnalysisService.ts): analyzeDifferences and          *)
(* findDifferences, stage by stage.                                        *)
(*                                                                         *)
(* Numbers.  JavaScript numbers that are not integers are kept exact:      *)
(*   - the fractional AnalysisParams (minDensity, minAspectRatio,          *)
(*     maxAspectRatio, maxRegionSizePercent, circleRadiusMultiplier) are   *)
(*     held in hundredths (0.40 is 40, 1.3 is 130);                        *)
(*   - circle and Difference coordinates are fractions <<num, den>> with   *)
(*     den > 0;                                                            *)
(*   - Math.sqrt(a) < b and Math.sqrt(a) > b are decided on the squares.   *)
(* Images.  A decoded image is a background colour, a foreground colour    *)
(* and the set of pixels painted in the foreground colour; a colour is     *)
(* <<r, g, b, a>>.  The canvas blur filter is a box mean of the given      *)
(* radius, clipped at the image border.                                    *)
(***************************************************************************)
EXTENDS Integers, Sequences, FiniteSets, TLC

VARIABLES
    originalImg,        \* the decoded original image
    modifiedImg,        \* the decoded modified image
    params,             \* AnalysisParams
    pc,                 \* position inside findDifferences
    outcome,            \* "pending" | "resolved" | "rejected" (the promise of analyzeDifferences)
    error,              \* message of the Error thrown by findDifferences, "" if none
    diffMap,            \* set of indices i with diffMap[i] = 1
    differencePixelCount,
    regions,            \* output of findConnectedComponents
    filteredRegions,    \* after step 4
    mergedRegions,      \* after step 5
    finalRegions,       \* after step 6
    allCircles,         \* after the map of step 7
    filteredCircles,    \* after filterOverlappingCircles
    differences,        \* the Difference[] the promise resolves to
    loopI,              \* mergeNearbyRegions: i of the outer for loop
    loopJ,              \* mergeNearbyRegions: j of the inner for loop
    mergedInPass,       \* mergeNearbyRegions: wasMergedInPass
    view,               \* App: "config" | "game"
    mode,               \* App: "none" (null) | "generator" | "player"
    gameState,          \* App: GameState
    gameData,           \* App: <<>> (null) or <<GameData>>
    isLoading,          \* App
    isTransitioning,    \* App
    appError,           \* App: error, "" (null) or a message
    controlPanelSettings,   \* App: <<>> (null) or <<ControlPanelState>>
    initialAnalysisParams,  \* App: <<>> (null) or <<AnalysisParams>>
    timer,              \* App
    score,              \* App
    savedGames,         \* App: sequence of GameSessionDocument
    playedGameIds,      \* App: set of $id
    areImagesLoaded,    \* ImageDisplay
    countdown,          \* ImageDisplay: 0 (null) or 1 .. 3
    misses,             \* ImageDisplay: number of miss marks being animated
    loaders,            \* ImageDisplay: the image pairs that are loading, each
                        \* with the debugMode its onImagesReady was made with
    genPc,              \* position inside the asynchronous handler that is
                        \* running (handleStartPlayer, handleGenerate or
                        \* handleReanalyze), "none" if none is
    generated,          \* handleGenerate: <<>> or <<the pair generateImages gave>>
    complexity,         \* handleGenerate: the score of the generated original
    winCheck,           \* the win-condition effect is due to run
    games               \* the number of games begun so far

\* the state of App and of ImageDisplay
appVars == <<view, mode, gameState, gameData, isLoading, isTransitioning,
             appError, controlPanelSettings, initialAnalysisParams, timer,
             score, savedGames, playedGameIds, areImagesLoaded, countdown,
             misses, loaders, genPc, generated, complexity, winCheck, games>>

vars == <<originalImg, modifiedImg, params, pc, outcome, error, diffMap,
          differencePixelCount, regions, filteredRegions, mergedRegions,
          finalRegions, allCircles, filteredCircles, differences,
          loopI, loopJ, mergedInPass, appVars>>

-----------------------------------------------------------------------------
(* Bounds of the model *)

MaxW == 4
MaxH == 3
MaxPainted == 4
MaxShapes == 3

-----------------------------------------------------------------------------
(* Arithmetic helpers *)

Min(a, b) == IF a < b THEN a ELSE b
Max(a, b) == IF a > b THEN a ELSE b

SetMin(S) == CHOOSE i \in S : \A j \in S : i <= j
SetMax(S) == CHOOSE i \in S : \A j \in S : i >= j

\* Math.sqrt(a) < b , for an integer a >= 0
SqrtLess(a, b) == b > 0 /\ a < b * b
\* Math.sqrt(a) > b , for an integer a >= 0
SqrtGreater(a, b) == b < 0 \/ a > b * b

RECURSIVE GCD(_, _)
GCD(a, b) == IF b = 0 THEN a ELSE GCD(b, a % b)

Abs(a) == IF a < 0 THEN -a ELSE a

\* Exact fractions <<num, den>> in lowest terms, den > 0
Frac(n, d) == LET g == GCD(Abs(n), d) IN <<n \div g, d \div g>>
FracAdd(a, b) ==
    LET g == GCD(a[2], b[2])
    IN  Frac(a[1] * (b[2] \div g) + b[1] * (a[2] \div g), (a[2] \div g) * b[2])
FracSub(a, b) == FracAdd(a, <<-b[1], b[2]>>)
FracMul(a, b) ==
    LET x == Frac(a[1], b[2])
        y == Frac(b[1], a[2])
    IN  <<x[1] * y[1], x[2] * y[2]>>
FracDivInt(a, n) == FracMul(a, <<1, n>>)
FracMulInt(a, n) == FracMul(a, <<n, 1>>)
FracLess(a, b) ==
    LET g == GCD(a[2], b[2])
    IN  a[1] * (b[2] \div g) < b[1] * (a[2] \div g)
FracLeq(a, b) == ~FracLess(b, a)

-----------------------------------------------------------------------------
(* Images and the canvas *)

Gray == <<128, 128, 128, 255>>
Red == <<255, 0, 0, 255>>
NearGray == <<130, 128, 128, 255>>
\* black, opaque, half transparent and fully transparent: colours that a
\* canvas gives back from getImageData exactly as they were drawn on it
Black == <<0, 0, 0, 255>>
HalfBlack == <<0, 0, 0, 128>>
Clear == <<0, 0, 0, 0>>
\* an opaque gray of the given level
GrayLevel(level) == <<level, level, level, 255>>

Image(w, h, bg, fg, painted) ==
    [naturalWidth |-> w, naturalHeight |-> h, bg |-> bg, fg |-> fg, painted |-> painted]

\* the pixel of the decoded image at (x, y)
PixelAt(img, x, y) == IF <<x, y>> \in img.painted THEN img.fg ELSE img.bg

\* ctx.filter = blur(r px); ctx.drawImage(img, 0, 0); getImageData(...).data
\* at pixel (x, y): the box mean, per channel, of the pixels within r
GetImageData(img, r, x, y) ==
    LET xs == Max(0, x - r) .. Min(img.naturalWidth - 1, x + r)
        ys == Max(0, y - r) .. Min(img.naturalHeight - 1, y + r)
        n  == Cardinality(xs) * Cardinality(ys)
        np == Cardinality({q \in xs \X ys : PixelAt(img, q[1], q[2]) = img.fg})
    IN  [c \in 1..4 |-> (np * img.fg[c] + (n - np) * img.bg[c]) \div n]

-----------------------------------------------------------------------------
(* Step 2: the binary difference map *)

\* the square of the sum of the channel differences
Distance2Taxicab(p1, p2) ==
    (Abs(p1[1] - p2[1]) + Abs(p1[2] - p2[2]) + Abs(p1[3] - p2[3]))
        * (Abs(p1[1] - p2[1]) + Abs(p1[2] - p2[2]) + Abs(p1[3] - p2[3]))

\* a distance that counts the alpha channel as well
Distance2WithAlpha(p1, p2) ==
    (p1[1] - p2[1]) * (p1[1] - p2[1]) + (p1[2] - p2[2]) * (p1[2] - p2[2])
        + (p1[3] - p2[3]) * (p1[3] - p2[3]) + (p1[4] - p2[4]) * (p1[4] - p2[4])

\* the square of the distance of step 2
Distance2(p1, p2) ==
    (p1[1] - p2[1]) * (p1[1] - p2[1]) + (p1[2] - p2[2]) * (p1[2] - p2[2])
        + (p1[3] - p2[3]) * (p1[3] - p2[3])

\* a difference map that also marks a distance equal to the threshold
IsDifferentOrEqual(p1, p2, colorThreshold) ==
    ~SqrtLess(Distance2(p1, p2), colorThreshold)

\* a difference map with the comparison turned round
IsDifferentBelow(p1, p2, colorThreshold) ==
    SqrtLess(Distance2(p1, p2), colorThreshold)

\* distance > params.colorThreshold
IsDifferent(p1, p2, colorThreshold) == SqrtGreater(Distance2(p1, p2), colorThreshold)

\* the indices i / 4 at which the loop sets diffMap to 1
BuildDiffMap(original, modified, blurRadius, colorThreshold) ==
    LET width == original.naturalWidth
        height == original.naturalHeight
    IN  {i \in 0 .. (width * height - 1) :
            IsDifferent(GetImageData(original, blurRadius, i % width, i \div width),
                        GetImageData(modified, blurRadius, i % width, i \div width),
                        colorThreshold)}

-----------------------------------------------------------------------------
(* Step 3: connected components by flood fill *)

Region(minX, maxX, minY, maxY, size) ==
    [minX |-> minX, maxX |-> maxX, minY |-> minY, maxY |-> maxY, size |-> size]

\* pushes of the four neighbours that share an edge only
NeighboursByEdge(x, y) ==
    { <<x + 1, y>>, <<x - 1, y>>, <<x, y + 1>>, <<x, y - 1>> }

\* the eight pushes of floodFill
Neighbours(x, y) ==
    { <<x + 1, y>>, <<x - 1, y>>, <<x, y + 1>>, <<x, y - 1>>,
      <<x + 1, y + 1>>, <<x - 1, y - 1>>, <<x + 1, y - 1>>, <<x - 1, y + 1>> }

\* the while loop of floodFill, a generation of the stack at a time: of the
\* entries on the stack, those outside the image, already visited or unset
\* are skipped (continue); each other one is marked visited, counted, folded
\* into the box, and pushes its eight neighbours, which form the next
\* generation.  The order of the pops does not enter the result: size is a
\* count, the box a minimum and a maximum, visited a set.
RECURSIVE FloodLoop(_, _, _, _, _, _)
FloodLoop(map, visited, width, height, stack, region) ==
    LET live == {p \in stack :
                    ~(p[1] < 0 \/ p[1] >= width \/ p[2] < 0 \/ p[2] >= height
                        \/ (p[2] * width + p[1]) \in visited
                        \/ (p[2] * width + p[1]) \notin map)}
        xs == {p[1] : p \in live} \cup {region.minX, region.maxX}
        ys == {p[2] : p \in live} \cup {region.minY, region.maxY}
    IN  IF live = {} THEN [region |-> region, visited |-> visited]
        ELSE FloodLoop(map, visited \cup {p[2] * width + p[1] : p \in live},
                       width, height,
                       UNION {Neighbours(p[1], p[2]) : p \in live},
                       Region(SetMin(xs), SetMax(xs), SetMin(ys), SetMax(ys),
                              region.size + Cardinality(live)))

floodFill(map, visited, width, height, startX, startY) ==
    FloodLoop(map, visited, width, height, {<<startX, startY>>},
              Region(startX, startX, startY, startY, 0))

\* the raster scan: the next seed is the least index that is set and unvisited
RECURSIVE ScanLoop(_, _, _, _, _)
ScanLoop(map, visited, width, height, found) ==
    IF map \subseteq visited THEN found
    ELSE LET index == SetMin(map \ visited)
             filled == floodFill(map, visited, width, height, index % width, index \div width)
         IN  ScanLoop(map, filled.visited, width, height, Append(found, filled.region))

findConnectedComponents(map, width, height) == ScanLoop(map, {}, width, height, <<>>)

-----------------------------------------------------------------------------
(* Step 4: the region filters *)

\* a size rule that also drops a region of exactly minRegionSize pixels
PassesSizeStrictly(region, p) == region.size > p.minRegionSize

PassesSize(region, p) == region.size >= p.minRegionSize

PassesAspectRatio(region, p) ==
    LET regionWidth == region.maxX - region.minX + 1
        regionHeight == region.maxY - region.minY + 1
    IN  IF regionHeight = 0 \/ regionWidth = 0 THEN FALSE
        ELSE \* aspectRatio > minAspectRatio && aspectRatio < maxAspectRatio
             /\ regionWidth * 100 > p.minAspectRatio * regionHeight
             /\ regionWidth * 100 < p.maxAspectRatio * regionHeight

PassesDensity(region, p) ==
    LET boundingArea == (region.maxX - region.minX + 1) * (region.maxY - region.minY + 1)
        isVeryLarge == region.size > p.minRegionSize * 10
    IN  IF boundingArea = 0 THEN FALSE
        ELSE isVeryLarge \/ region.size * 100 > p.minDensity * boundingArea

FilterRegions(rs, p) ==
    LET BySize(r) == PassesSize(r, p)
        ByAspect(r) == PassesAspectRatio(r, p)
        ByDensity(r) == PassesDensity(r, p)
    IN  SelectSeq(SelectSeq(SelectSeq(rs, BySize), ByAspect), ByDensity)

-----------------------------------------------------------------------------
(* Step 5: merging of nearby regions *)

\* a union that keeps the size of the first region
mergeTwoRegionsFirstSize(r1, r2) ==
    Region(Min(r1.minX, r2.minX), Max(r1.maxX, r2.maxX),
           Min(r1.minY, r2.minY), Max(r1.maxY, r2.maxY), r1.size)

\* a union that keeps the box of the first region
mergeTwoRegionsKeepFirst(r1, r2) ==
    Region(r1.minX, r1.maxX, r1.minY, r1.maxY, r1.size + r2.size)

mergeTwoRegions(r1, r2) ==
    Region(Min(r1.minX, r2.minX), Max(r1.maxX, r2.maxX),
           Min(r1.minY, r2.minY), Max(r1.maxY, r2.maxY), r1.size + r2.size)

\* the squared gap dx * dx + dy * dy between two bounding boxes
Gap2(region1, region2) ==
    LET dx == Max(0, Max(region1.minX, region2.minX) - Min(region1.maxX, region2.maxX))
        dy == Max(0, Max(region1.minY, region2.minY) - Min(region1.maxY, region2.maxY))
    IN  dx * dx + dy * dy

\* a test that merges a region only into one that begins no further right
shouldMergeLeftFirst(region1, region2, maxDistance) ==
    /\ SqrtLess(Gap2(region1, region2), maxDistance)
    /\ region1.minX <= region2.minX
\* Math.sqrt(dx * dx + dy * dy) < maxDistance
shouldMerge(region1, region2, maxDistance) == SqrtLess(Gap2(region1, region2), maxDistance)

\* a splice that removes nothing
SpliceNothing(s, j) == s

Splice(s, j) == SubSeq(s, 1, j - 1) \o SubSeq(s, j + 1, Len(s))

\* one pass of the nested for loops (i, j are 1-based); a merge replaces
\* regions[i], removes regions[j] and looks at the same j again
RECURSIVE MergePass(_, _, _, _, _)
MergePass(rs, i, j, wasMergedInPass, mergeDistance) ==
    IF i > Len(rs) THEN [regions |-> rs, wasMergedInPass |-> wasMergedInPass]
    ELSE IF j > Len(rs) THEN MergePass(rs, i + 1, i + 2, wasMergedInPass, mergeDistance)
    ELSE IF shouldMerge(rs[i], rs[j], mergeDistance)
         THEN MergePass(Splice([rs EXCEPT ![i] = mergeTwoRegions(rs[i], rs[j])], j),
                        i, j, TRUE, mergeDistance)
         ELSE MergePass(rs, i, j + 1, wasMergedInPass, mergeDistance)

\* a merger that stops after its first pass
MergeLoopOnePass(rs, mergeDistance) == MergePass(rs, 1, 2, FALSE, mergeDistance).regions

\* the while (wasMergedInPass) loop
RECURSIVE MergeLoop(_, _)
MergeLoop(rs, mergeDistance) ==
    LET pass == MergePass(rs, 1, 2, FALSE, mergeDistance)
    IN  IF pass.wasMergedInPass THEN MergeLoop(pass.regions, mergeDistance)
        ELSE pass.regions

mergeNearbyRegions(rs, mergeDistance) ==
    IF Len(rs) < 2 THEN rs ELSE MergeLoop(rs, mergeDistance)

-----------------------------------------------------------------------------
(* Step 6: excessively large regions *)

FitsImage(region, width, height, p) ==
    LET regionWidth == region.maxX - region.minX
        regionHeight == region.maxY - region.minY
        imageMinDimension == Min(width, height)
    IN  /\ regionWidth * 100 < p.maxRegionSizePercent * imageMinDimension
        /\ regionHeight * 100 < p.maxRegionSizePercent * imageMinDimension

DropLargeRegions(rs, width, height, p) ==
    LET Fits(r) == FitsImage(r, width, height, p)
    IN  SelectSeq(rs, Fits)

-----------------------------------------------------------------------------
(* Step 7: circles, overlap filter, normalisation *)

Circle(x, y, radius) == [x |-> x, y |-> y, radius |-> radius]

\* a circle centred on the top left corner of the box
ToCircleAtCorner(region, p) ==
    LET radiusX == Frac(region.maxX - region.minX, 2)
        radiusY == Frac(region.maxY - region.minY, 2)
        larger == IF FracLess(radiusX, radiusY) THEN radiusY ELSE radiusX
    IN  Circle(<<region.minX, 1>>, <<region.minY, 1>>,
               FracMul(larger, Frac(p.circleRadiusMultiplier, 100)))

ToCircle(region, p) ==
    LET centerX == Frac(region.minX + region.maxX, 2)
        centerY == Frac(region.minY + region.maxY, 2)
        radiusX == Frac(region.maxX - region.minX, 2)
        radiusY == Frac(region.maxY - region.minY, 2)
        larger == IF FracLess(radiusX, radiusY) THEN radiusY ELSE radiusX
    IN  Circle(centerX, centerY, FracMul(larger, Frac(p.circleRadiusMultiplier, 100)))

ToCircles(rs, p) == [k \in 1 .. Len(rs) |-> ToCircle(rs[k], p)]

\* an overlap test that forgets the radius of the circle already kept
doCirclesOverlapOwnRadius(circle1, circle2) ==
    LET dx == FracSub(circle1.x, circle2.x)
        dy == FracSub(circle1.y, circle2.y)
        d2 == FracAdd(FracMul(dx, dx), FracMul(dy, dy))
    IN  circle1.radius[1] > 0 /\ FracLess(d2, FracMul(circle1.radius, circle1.radius))

\* Math.sqrt(dx * dx + dy * dy) < circle1.radius + circle2.radius
doCirclesOverlap(circle1, circle2) ==
    LET dx == FracSub(circle1.x, circle2.x)
        dy == FracSub(circle1.y, circle2.y)
        d2 == FracAdd(FracMul(dx, dx), FracMul(dy, dy))
        sum == FracAdd(circle1.radius, circle2.radius)
    IN  sum[1] > 0 /\ FracLess(d2, FracMul(sum, sum))

\* a sort with the comparator a.radius - b.radius
RECURSIVE InsertByRadiusAscending(_, _)
InsertByRadiusAscending(sorted, c) ==
    IF sorted = <<>> THEN <<c>>
    ELSE IF FracLess(c.radius, Head(sorted).radius) THEN <<c>> \o sorted
    ELSE <<Head(sorted)>> \o InsertByRadiusAscending(Tail(sorted), c)

\* circles.sort((a, b) => b.radius - a.radius): stable, descending by radius
RECURSIVE InsertByRadius(_, _)
InsertByRadius(sorted, c) ==
    IF sorted = <<>> THEN <<c>>
    ELSE IF FracLess(Head(sorted).radius, c.radius) THEN <<c>> \o sorted
    ELSE <<Head(sorted)>> \o InsertByRadius(Tail(sorted), c)

RECURSIVE SortLoop(_, _)
SortLoop(sorted, rest) ==
    IF rest = <<>> THEN sorted
    ELSE SortLoop(InsertByRadius(sorted, Head(rest)), Tail(rest))

SortByRadius(circles) == SortLoop(<<>>, circles)

\* a pass that keeps every circle
KeepLoopEverything(nonOverlappingCircles, rest) == nonOverlappingCircles \o rest

RECURSIVE KeepLoop(_, _)
KeepLoop(nonOverlappingCircles, rest) ==
    IF rest = <<>> THEN nonOverlappingCircles
    ELSE LET circle == Head(rest)
             overlaps == \E k \in 1 .. Len(nonOverlappingCircles) :
                             doCirclesOverlap(circle, nonOverlappingCircles[k])
         IN  KeepLoop(IF overlaps THEN nonOverlappingCircles
                      ELSE Append(nonOverlappingCircles, circle), Tail(rest))

filterOverlappingCircles(circles) == KeepLoop(<<>>, SortByRadius(circles))

ToDifference(circle, index, width, height) ==
    [id |-> index,
     x |-> FracDivInt(circle.x, width),
     y |-> FracDivInt(circle.y, height),
     radius |-> FracDivInt(circle.radius, Min(width, height)),
     description |-> ""]

ToDifferences(circles, width, height) ==
    [k \in 1 .. Len(circles) |-> ToDifference(circles[k], k - 1, width, height)]

-----------------------------------------------------------------------------
(* Inputs *)

\* the fields of AnalysisParams in the order of the presets of
\* getAdaptiveParameters; the last five in hundredths
AnalysisParams(blur, threshold, minSize, merge, density, minAspect, maxAspect, maxPercent, multiplier) ==
    [blurRadius |-> blur, colorThreshold |-> threshold,
     minRegionSize |-> minSize, mergeDistance |-> merge,
     minDensity |-> density, minAspectRatio |-> minAspect,
     maxAspectRatio |-> maxAspect,
     maxRegionSizePercent |-> maxPercent,
     circleRadiusMultiplier |-> multiplier]

\* parameter sets at the scale of the small images of Spec
ParamSets ==
    { AnalysisParams(0, 40, 1, 0, 20, 10, 1000, 80, 200),
      AnalysisParams(0, 0, 1, 3, 20, 10, 1000, 80, 130),
      AnalysisParams(1, 10, 2, 1, 50, 50, 200, 40, 100) }

Pixels(w, h) == (0 .. w - 1) \X (0 .. h - 1)

\* up to MaxPainted pixels of the largest image, one fewer of a smaller one
PaintedSets(w, h) ==
    {S \in SUBSET Pixels(w, h) :
        Cardinality(S) <= (IF w = MaxW /\ h = MaxH THEN MaxPainted ELSE MaxPainted - 1)}

\* a pair of images of equal, non-zero dimensions (the largest, or one pixel
\* wide or high): a plain gray original and
\* a modified image with some pixels repainted red; or, for at most one
\* pixel, repainted nearly gray, or twice the same image
EqualPair(original, modified) ==
    \E w \in {1, MaxW}, h \in {1, MaxH} :
        \E S \in PaintedSets(w, h) :
            \/ /\ original = Image(w, h, Gray, Red, {})
               /\ modified = Image(w, h, Gray, Red, S)
            \/ /\ Cardinality(S) <= 1
               /\ original = Image(w, h, Gray, Red, {})
               /\ modified = Image(w, h, Gray, NearGray, S)
            \/ /\ Cardinality(S) <= 1
               /\ original = Image(w, h, Gray, Red, S)
               /\ modified = Image(w, h, Gray, Red, S)

\* a pair of plain images whose dimensions are zero or differ
OddPair(original, modified) ==
    \E w1 \in 0 .. MaxW, h1 \in 0 .. MaxH, w2 \in 0 .. MaxW, h2 \in 0 .. MaxH :
        /\ w1 = 0 \/ h1 = 0 \/ w2 = 0 \/ h2 = 0 \/ w1 # w2 \/ h1 # h2
        /\ original = Image(w1, h1, Gray, Red, {})
        /\ modified = Image(w2, h2, Gray, Red, {})

-----------------------------------------------------------------------------
(* The state machine: one call of analyzeDifferences *)

\* App and ImageDisplay as they are mounted
AppStart ==
    /\ view = "config"
    /\ mode = "none"
    /\ gameState = "idle"
    /\ gameData = <<>>
    /\ isLoading = FALSE
    /\ isTransitioning = FALSE
    /\ appError = ""
    /\ controlPanelSettings = <<>>
    /\ initialAnalysisParams = <<>>
    /\ timer = 0
    /\ score = 0
    /\ savedGames = <<>>
    /\ playedGameIds = {}
    /\ areImagesLoaded = FALSE
    /\ countdown = 0
    /\ misses = 0
    /\ loaders = <<>>
    /\ genPc = "none"
    /\ generated = <<>>
    /\ complexity = <<0, 1>>
    /\ winCheck = FALSE
    /\ games = 0

Fresh ==
    /\ pc = "start"
    /\ outcome = "pending"
    /\ error = ""
    /\ diffMap = {}
    /\ differencePixelCount = 0
    /\ regions = <<>>
    /\ filteredRegions = <<>>
    /\ mergedRegions = <<>>
    /\ finalRegions = <<>>
    /\ allCircles = <<>>
    /\ filteredCircles = <<>>
    /\ differences = <<>>
    /\ loopI = 0
    /\ loopJ = 0
    /\ mergedInPass = FALSE
    /\ AppStart

Init ==
    /\ \/ EqualPair(originalImg, modifiedImg)
       \/ OddPair(originalImg, modifiedImg)
    /\ params \in ParamSets
    /\ Fresh

-----------------------------------------------------------------------------
(* The scenarios of the specification, at their own scale *)

Square(x0, y0, side) == (x0 .. x0 + side - 1) \X (y0 .. y0 + side - 1)

\* the parameters the scenarios fix (colorThreshold, minRegionSize 50,
\* mergeDistance), the others as in the "low" preset, without blur
ScenarioParams(threshold, merge, maxPercent) ==
    AnalysisParams(0, threshold, 50, merge, 20, 10, 1000, maxPercent, 130)

\* scenarios A, B and C: 100 x 100 images, identical or differing in a red
\* square of side 20 at (40, 40); the parameters of the scenarios, or the
\* "low" preset with the scenarios' minRegionSize
ScenarioABC ==
    /\ params \in {ScenarioParams(40, 25, 40), ScenarioParams(255, 25, 40),
                   AnalysisParams(1, 40, 50, 25, 20, 10, 1000, 40, 130)}
    /\ originalImg = Image(100, 100, Gray, Red, {})
    /\ modifiedImg \in {Image(100, 100, Gray, Red, {}),
                        Image(100, 100, Gray, Red, Square(40, 40, 20))}

\* scenario C on backgrounds of several gray levels
ScenarioGray ==
    /\ params = ScenarioParams(255, 25, 40)
    /\ \E level \in {0, 85, 128, 170, 171, 200, 255} :
          /\ originalImg = Image(100, 100, GrayLevel(level), Red, {})
          /\ modifiedImg = Image(100, 100, GrayLevel(level), Red, Square(40, 40, 20))

\* two squares of side 10 with 200 pixels between them, side by side (from
\* (x0, y0)) or one above the other
TwoSquares(x0, y0, sideBySide) ==
    Square(x0, y0, 10)
        \cup (IF sideBySide THEN Square(x0 + 210, y0, 10) ELSE Square(x0, y0 + 210, 10))

\* scenario D
ScenarioD ==
    /\ params \in {ScenarioParams(40, merge, maxPercent) :
                      merge \in {5, 250}, maxPercent \in {40, 80}}
    /\ \E size \in {<<300, 300>>, <<240, 20>>}, x0 \in {0, 15}, y0 \in {0, 5},
          sideBySide \in BOOLEAN :
          /\ sideBySide \/ size[2] >= 220
          /\ originalImg = Image(size[1], size[2], Gray, Red, {})
          /\ modifiedImg = Image(size[1], size[2], Gray, Red, TwoSquares(x0, y0, sideBySide))

\* scenario E: 100 x 100 against 100 x 101
ScenarioE ==
    /\ params = ScenarioParams(40, 25, 40)
    /\ originalImg = Image(100, 100, Gray, Red, {})
    /\ modifiedImg = Image(100, 101, Gray, Red, {})

InitScenario ==
    /\ ScenarioABC \/ ScenarioGray \/ ScenarioD \/ ScenarioE
    /\ Fresh

width == originalImg.naturalWidth
height == originalImg.naturalHeight

\* a dimension check that compares the widths only
DimensionErrorWidthOnly(original, modified) ==
    IF original.naturalWidth = 0 \/ original.naturalHeight = 0
    THEN "Image dimensions are zero, cannot analyze."
    ELSE IF original.naturalWidth # modified.naturalWidth
    THEN "Image dimensions do not match."
    ELSE ""

\* the Error message thrown by the dimension checks, "" if they pass
DimensionError(original, modified) ==
    IF original.naturalWidth = 0 \/ original.naturalHeight = 0
    THEN "Image dimensions are zero, cannot analyze."
    ELSE IF original.naturalWidth # modified.naturalWidth
              \/ original.naturalHeight # modified.naturalHeight
    THEN "Image dimensions do not match."
    ELSE ""

\* findDifferences up to the canvas; a throw is caught by analyzeDifferences,
\* which rejects the promise
CheckDimensions ==
    /\ pc = "start"
    /\ error' = DimensionError(originalImg, modifiedImg)
    /\ IF error' # ""
       THEN pc' = "done" /\ outcome' = "rejected"
       ELSE pc' = "canvas" /\ outcome' = outcome
    /\ UNCHANGED <<appVars, loopI, loopJ, mergedInPass, originalImg, modifiedImg, params, diffMap, differencePixelCount,
                   regions, filteredRegions, mergedRegions, finalRegions,
                   allCircles, filteredCircles, differences>>

\* steps 1 and 2: blur, read back, build the difference map and count
DiffMapStep ==
    /\ pc = "canvas"
    /\ diffMap' = BuildDiffMap(originalImg, modifiedImg, params.blurRadius,
                               params.colorThreshold)
    /\ differencePixelCount' = Cardinality(diffMap')
    /\ pc' = "mapped"
    /\ UNCHANGED <<appVars, loopI, loopJ, mergedInPass, originalImg, modifiedImg, params, outcome, error,
                   regions, filteredRegions, mergedRegions, finalRegions,
                   allCircles, filteredCircles, differences>>

\* if (differencePixelCount === 0) return []
EarlyExit ==
    /\ pc = "mapped"
    /\ differencePixelCount = 0
    /\ differences' = <<>>
    /\ outcome' = "resolved"
    /\ pc' = "done"
    /\ UNCHANGED <<appVars, loopI, loopJ, mergedInPass, originalImg, modifiedImg, params, error, diffMap,
                   differencePixelCount, regions, filteredRegions, mergedRegions,
                   finalRegions, allCircles, filteredCircles>>

LabelStep ==
    /\ pc = "mapped"
    /\ differencePixelCount # 0
    /\ regions' = findConnectedComponents(diffMap, width, height)
    /\ pc' = "labelled"
    /\ UNCHANGED <<appVars, loopI, loopJ, mergedInPass, originalImg, modifiedImg, params, outcome, error, diffMap,
                   differencePixelCount, filteredRegions, mergedRegions,
                   finalRegions, allCircles, filteredCircles, differences>>

FilterStep ==
    /\ pc = "labelled"
    /\ filteredRegions' = FilterRegions(regions, params)
    /\ pc' = "filtered"
    /\ UNCHANGED <<appVars, loopI, loopJ, mergedInPass, originalImg, modifiedImg, params, outcome, error, diffMap,
                   differencePixelCount, regions, mergedRegions,
                   finalRegions, allCircles, filteredCircles, differences>>

\* mergeNearbyRegions works in place: filteredRegions and mergedRegions are
\* the same array afterwards
MergeStep ==
    /\ pc = "filtered"
    /\ mergedRegions' = mergeNearbyRegions(filteredRegions, params.mergeDistance)
    /\ filteredRegions' = mergedRegions'
    /\ pc' = "merged"
    /\ UNCHANGED <<appVars, loopI, loopJ, mergedInPass, originalImg, modifiedImg, params, outcome, error, diffMap,
                   differencePixelCount, regions,
                   finalRegions, allCircles, filteredCircles, differences>>

SizeStep ==
    /\ pc = "merged"
    /\ finalRegions' = DropLargeRegions(mergedRegions, width, height, params)
    /\ pc' = "sized"
    /\ UNCHANGED <<appVars, loopI, loopJ, mergedInPass, originalImg, modifiedImg, params, outcome, error, diffMap,
                   differencePixelCount, regions, filteredRegions, mergedRegions,
                   allCircles, filteredCircles, differences>>

CircleStep ==
    /\ pc = "sized"
    /\ allCircles' = ToCircles(finalRegions, params)
    /\ pc' = "circles"
    /\ UNCHANGED <<appVars, loopI, loopJ, mergedInPass, originalImg, modifiedImg, params, outcome, error, diffMap,
                   differencePixelCount, regions, filteredRegions, mergedRegions,
                   finalRegions, filteredCircles, differences>>

\* filterOverlappingCircles sorts allCircles in place
OverlapStep ==
    /\ pc = "circles"
    /\ filteredCircles' = filterOverlappingCircles(allCircles)
    /\ allCircles' = SortByRadius(allCircles)
    /\ pc' = "kept"
    /\ UNCHANGED <<appVars, loopI, loopJ, mergedInPass, originalImg, modifiedImg, params, outcome, error, diffMap,
                   differencePixelCount, regions, filteredRegions, mergedRegions,
                   finalRegions, differences>>

\* the final map; analyzeDifferences resolves the promise with it
ReturnStep ==
    /\ pc = "kept"
    /\ differences' = ToDifferences(filteredCircles, width, height)
    /\ outcome' = "resolved"
    /\ pc' = "done"
    /\ UNCHANGED <<appVars, loopI, loopJ, mergedInPass, originalImg, modifiedImg, params, error, diffMap,
                   differencePixelCount, regions, filteredRegions, mergedRegions,
                   finalRegions, allCircles, filteredCircles>>

Next ==
    \/ CheckDimensions
    \/ DiffMapStep
    \/ EarlyExit
    \/ LabelStep
    \/ FilterStep
    \/ MergeStep
    \/ SizeStep
    \/ CircleStep
    \/ OverlapStep
    \/ ReturnStep

Spec == Init /\ [][Next]_vars

SpecScenario == InitScenario /\ [][Next]_vars

-----------------------------------------------------------------------------
(* Images made of a few shapes, and the merger loop by loop *)

Rectangle(x0, y0, w, h) == (x0 .. x0 + w - 1) \X (y0 .. y0 + h - 1)

\* a pixel; two pixels that touch by a corner; a wide, a tall and a hollow
\* rectangle
Dot == {<<0, 0>>}
Diagonal == {<<0, 0>>, <<1, 1>>}
Wide == Rectangle(0, 0, 4, 2)
Tall == Rectangle(0, 0, 2, 4)
Frame == Rectangle(0, 0, 4, 4) \ Rectangle(1, 1, 2, 2)

Shapes == {Dot, Diagonal, Wide, Tall, Frame}

\* the top left corners at which a shape is painted; no two shapes touch
Anchors == {<<0, 0>>, <<5, 0>>, <<0, 5>>, <<5, 5>>}

ShapeAt(shape, anchor) == {<<p[1] + anchor[1], p[2] + anchor[2]>> : p \in shape}

\* parameter sets at the scale of the shapes: without merging, at the
\* boundaries of the aspect-ratio and density filters; merging, with a
\* minRegionSize above one pixel; merging, with a high minDensity; merging
\* further, with a lower maxRegionSizePercent; without merging, with circles
\* of twice the size
ShapeParamSets ==
    { AnalysisParams(0, 40, 1, 0, 20, 10, 1000, 80, 200),
      AnalysisParams(0, 40, 1, 0, 50, 50, 200, 35, 130),
      AnalysisParams(0, 40, 2, 3, 20, 10, 1000, 80, 100),
      AnalysisParams(0, 40, 1, 3, 80, 10, 1000, 80, 200),
      AnalysisParams(0, 40, 1, 6, 20, 10, 1000, 45, 130) }

\* a plain gray 10 x 10 original and a modified image with up to MaxShapes
\* red shapes, each at an anchor of its own
RedShapes ==
    /\ params \in ShapeParamSets
    /\ originalImg = Image(10, 10, Gray, Red, {})
    /\ \E used \in SUBSET Anchors :
          /\ Cardinality(used) <= MaxShapes
          /\ \E shapeAt \in [used -> Shapes] :
                modifiedImg = Image(10, 10, Gray, Red,
                                    UNION {ShapeAt(shapeAt[a], a) : a \in used})

\* a plain gray or black 10 x 10 original and a modified image with one shape
\* in a colour that is near the background, or differs from it in alpha
\* only, or in both; colorThreshold at and just below the distance from
\* Gray to NearGray
FaintShapes ==
    /\ params \in {AnalysisParams(0, threshold, 1, 0, 20, 10, 1000, 80, 130) :
                      threshold \in {1, 2}}
    /\ \E bg \in {Gray, Black}, fg \in {NearGray, Black, HalfBlack, Clear},
          shape \in Shapes, a \in Anchors :
          /\ originalImg = Image(10, 10, bg, fg, {})
          /\ modifiedImg = Image(10, 10, bg, fg, ShapeAt(shape, a))

InitShapes ==
    /\ RedShapes \/ FaintShapes
    /\ Fresh

\* mergeNearbyRegions up to the while loop; the array it works on in place is
\* filteredRegions
MergeEnter ==
    /\ pc = "filtered"
    /\ IF Len(filteredRegions) < 2
       THEN /\ mergedRegions' = filteredRegions
            /\ pc' = "merged"
            /\ UNCHANGED mergedInPass
       ELSE /\ mergedInPass' = TRUE
            /\ pc' = "while"
            /\ UNCHANGED mergedRegions
    /\ UNCHANGED <<appVars, loopI, loopJ, originalImg, modifiedImg, params, outcome, error,
                   diffMap, differencePixelCount, regions, filteredRegions,
                   finalRegions, allCircles, filteredCircles, differences>>

\* while (wasMergedInPass) { wasMergedInPass = false; i = 0 ... }; return regions
MergeWhile ==
    /\ pc = "while"
    /\ IF mergedInPass
       THEN /\ mergedInPass' = FALSE
            /\ loopI' = 0
            /\ pc' = "for_i"
            /\ UNCHANGED mergedRegions
       ELSE /\ mergedRegions' = filteredRegions
            /\ pc' = "merged"
            /\ UNCHANGED <<loopI, mergedInPass>>
    /\ UNCHANGED <<appVars, loopJ, originalImg, modifiedImg, params, outcome, error,
                   diffMap, differencePixelCount, regions, filteredRegions,
                   finalRegions, allCircles, filteredCircles, differences>>

\* the test of the outer for loop: i < regions.length, then j = i + 1
MergeOuter ==
    /\ pc = "for_i"
    /\ IF loopI < Len(filteredRegions)
       THEN loopJ' = loopI + 1 /\ pc' = "for_j"
       ELSE loopJ' = loopJ /\ pc' = "while"
    /\ UNCHANGED <<appVars, loopI, mergedInPass, originalImg, modifiedImg, params, outcome,
                   error, diffMap, differencePixelCount, regions, filteredRegions,
                   mergedRegions, finalRegions, allCircles, filteredCircles,
                   differences>>

\* the test and the body of the inner for loop, with its j++; regions[i] and
\* regions[j] of the code are filteredRegions[loopI + 1] and [loopJ + 1]
MergeInner ==
    /\ pc = "for_j"
    /\ IF loopJ < Len(filteredRegions)
       THEN IF shouldMerge(filteredRegions[loopI + 1], filteredRegions[loopJ + 1],
                           params.mergeDistance)
            THEN /\ filteredRegions' =
                       Splice([filteredRegions EXCEPT ![loopI + 1] =
                                  mergeTwoRegions(filteredRegions[loopI + 1],
                                                  filteredRegions[loopJ + 1])],
                              loopJ + 1)
                 /\ mergedInPass' = TRUE
                 /\ UNCHANGED <<loopI, loopJ, pc>>
            ELSE /\ loopJ' = loopJ + 1
                 /\ UNCHANGED <<loopI, mergedInPass, filteredRegions, pc>>
       ELSE /\ loopI' = loopI + 1
            /\ pc' = "for_i"
            /\ UNCHANGED <<loopJ, mergedInPass, filteredRegions>>
    /\ UNCHANGED <<appVars, originalImg, modifiedImg, params, outcome, error, diffMap,
                   differencePixelCount, regions, mergedRegions, finalRegions,
                   allCircles, filteredCircles, differences>>

\* findDifferences with mergeNearbyRegions taken loop by loop
NextBySteps ==
    \/ CheckDimensions
    \/ DiffMapStep
    \/ EarlyExit
    \/ LabelStep
    \/ FilterStep
    \/ MergeEnter
    \/ MergeWhile
    \/ MergeOuter
    \/ MergeInner
    \/ SizeStep
    \/ CircleStep
    \/ OverlapStep
    \/ ReturnStep

\* the steps of mergeNearbyRegions
MergerSteps == MergeEnter \/ MergeWhile \/ MergeOuter \/ MergeInner

\* the merger is synchronous code: once it can take a step it takes it
SpecShapes == InitShapes /\ [][NextBySteps]_vars /\ WF_vars(MergerSteps)

-----------------------------------------------------------------------------
(* Properties of the result *)

Returned == pc = "done" /\ outcome = "resolved"

ZeroMessage == "Image dimensions are zero, cannot analyze."
MismatchMessage == "Image dimensions do not match."

\* no stage after the dimension checks has produced anything
NoOutput ==
    /\ diffMap = {} /\ differencePixelCount = 0
    /\ regions = <<>> /\ filteredRegions = <<>> /\ mergedRegions = <<>>
    /\ finalRegions = <<>> /\ allCircles = <<>> /\ filteredCircles = <<>>
    /\ differences = <<>>

\* a Difference taken back to pixel space
Denormalized(d) ==
    Circle(FracMulInt(d.x, width), FracMulInt(d.y, height),
           FracMulInt(d.radius, Min(width, height)))

\* centerDistance >= radius1 + radius2
Apart(c1, c2) ==
    LET dx == FracSub(c1.x, c2.x)
        dy == FracSub(c1.y, c2.y)
        d2 == FracAdd(FracMul(dx, dx), FracMul(dy, dy))
        sum == FracAdd(c1.radius, c2.radius)
    IN  sum[1] <= 0 \/ FracLeq(FracMul(sum, sum), d2)

\* C1: in every returned result, any two distinct Differences, taken back
\* to pixel space, have their centers at least the sum of their radii apart.
C1_NonOverlap ==
    Returned =>
        \A i, j \in 1 .. Len(differences) :
            i # j => Apart(Denormalized(differences[i]), Denormalized(differences[j]))

\* two Differences of positive radius are returned whose circles touch:
\* their centers are exactly the sum of their radii apart
C1_Witness ==
    /\ Returned
    /\ \E i, j \in 1 .. Len(differences) :
          /\ i < j
          /\ FracLess(<<0, 1>>, differences[i].radius)
          /\ FracLess(<<0, 1>>, differences[j].radius)
          /\ LET c1 == Denormalized(differences[i])
                 c2 == Denormalized(differences[j])
                 dx == FracSub(c1.x, c2.x)
                 dy == FracSub(c1.y, c2.y)
                 sum == FracAdd(c1.radius, c2.radius)
             IN  FracAdd(FracMul(dx, dx), FracMul(dy, dy)) = FracMul(sum, sum)

\* C2: the returned Differences are the kept circles in non-increasing order
\* of radius, and the k-th of them (from 0) has id k.
C2_OrderedAndIndexed ==
    Returned =>
        /\ Len(differences) = Len(filteredCircles)
        /\ \A k \in 1 .. Len(differences) : differences[k].id = k - 1
        /\ \A k \in 1 .. Len(differences) - 1 :
              /\ FracLeq(differences[k + 1].radius, differences[k].radius)
              /\ FracLeq(filteredCircles[k + 1].radius, filteredCircles[k].radius)

\* two Differences of different radii are returned, and the regions they come
\* from were found in the opposite order
C2_Witness ==
    /\ Returned
    /\ Len(differences) = 2
    /\ Len(finalRegions) = 2
    /\ FracLess(differences[2].radius, differences[1].radius)
    /\ FracLess(ToCircle(finalRegions[1], params).radius,
                ToCircle(finalRegions[2], params).radius)

\* C3: every returned Difference has 0 <= x <= 1, 0 <= y <= 1 and radius > 0.
C3_NormalizationBounds ==
    Returned =>
        \A k \in 1 .. Len(differences) :
            /\ FracLeq(<<0, 1>>, differences[k].x) /\ FracLeq(differences[k].x, <<1, 1>>)
            /\ FracLeq(<<0, 1>>, differences[k].y) /\ FracLeq(differences[k].y, <<1, 1>>)
            /\ FracLess(<<0, 1>>, differences[k].radius)

\* C4: after the merger no two regions are closer than mergeDistance, and
\* the merger applied to its own output returns it unchanged.
C4_MergeFixpoint ==
    pc = "merged" =>
        /\ \A i, j \in 1 .. Len(mergedRegions) :
              i < j => ~SqrtLess(Gap2(mergedRegions[i], mergedRegions[j]),
                                 params.mergeDistance)
        /\ mergeNearbyRegions(mergedRegions, params.mergeDistance) = mergedRegions

\* the merger has merged something and has left at least two regions
C4_Witness ==
    /\ pc = "merged"
    /\ Len(mergedRegions) >= 2
    /\ Len(FilterRegions(regions, params)) > Len(mergedRegions)

\* the two decoded images agree in size and in every pixel
Identical(a, b) ==
    /\ a.naturalWidth = b.naturalWidth /\ a.naturalHeight = b.naturalHeight
    /\ a.naturalWidth > 0 /\ a.naturalHeight > 0
    /\ \A q \in Pixels(a.naturalWidth, a.naturalHeight) :
          PixelAt(a, q[1], q[2]) = PixelAt(b, q[1], q[2])

\* C5: for identical images the call counts no difference pixel, never
\* reaches labeling, filtering, merging or circles, and resolves with the
\* empty sequence.
C5_IdentityLaw ==
    Identical(originalImg, modifiedImg) =>
        /\ pc \in {"start", "canvas", "mapped", "done"}
        /\ differencePixelCount = 0
        /\ error = ""
        /\ regions = <<>> /\ filteredRegions = <<>> /\ mergedRegions = <<>>
        /\ finalRegions = <<>> /\ allCircles = <<>> /\ filteredCircles = <<>>
        /\ pc = "done" => (outcome = "resolved" /\ differences = <<>>)

\* a call on twice the same image, one that is not plain, has returned
C5_Witness ==
    /\ Identical(originalImg, modifiedImg)
    /\ originalImg.painted # {}
    /\ Returned

DimensionsDiffer ==
    \/ originalImg.naturalWidth # modifiedImg.naturalWidth
    \/ originalImg.naturalHeight # modifiedImg.naturalHeight

\* C6 as stated: images that differ in width or height end the call with the
\* dimension-mismatch error and no output.
C6_MismatchAlways ==
    (DimensionsDiffer /\ pc = "done") =>
        (outcome = "rejected" /\ error = MismatchMessage /\ NoOutput)

\* C6, amended: images that differ in width or height, the original having
\* non-zero width and height, end the call with the dimension-mismatch
\* error; no stage runs and nothing is output.
C6_MismatchOfNonZeroOriginal ==
    (DimensionsDiffer /\ originalImg.naturalWidth # 0 /\ originalImg.naturalHeight # 0) =>
        /\ pc \in {"start", "done"}
        /\ NoOutput
        /\ pc = "done" => (outcome = "rejected" /\ error = MismatchMessage)

\* a call on images of the same width and different heights has failed
C6_Witness ==
    /\ pc = "done"
    /\ outcome = "rejected"
    /\ originalImg.naturalWidth = modifiedImg.naturalWidth
    /\ originalImg.naturalHeight > 0
    /\ modifiedImg.naturalHeight > originalImg.naturalHeight

EitherImageEmpty ==
    \/ originalImg.naturalWidth = 0 \/ originalImg.naturalHeight = 0
    \/ modifiedImg.naturalWidth = 0 \/ modifiedImg.naturalHeight = 0

\* C7: if either image has zero width or zero height the call ends with the
\* zero-dimension error, not the mismatch error, and no output.
C7_ZeroDimensionEither ==
    (EitherImageEmpty /\ pc = "done") =>
        (outcome = "rejected" /\ error = ZeroMessage /\ error # MismatchMessage /\ NoOutput)

Thresholds == {0, 1, 2, 10, 40, 221, 222}

\* C9: a larger colorThreshold, everything else fixed, marks a subset of the
\* pixels and so never counts more difference pixels.
C9_ThresholdMonotone ==
    pc = "mapped" =>
        \A t \in Thresholds :
            LET other == BuildDiffMap(originalImg, modifiedImg, params.blurRadius, t)
            IN  /\ t >= params.colorThreshold =>
                      (other \subseteq diffMap /\ Cardinality(other) <= differencePixelCount)
                /\ t <= params.colorThreshold =>
                      (diffMap \subseteq other /\ differencePixelCount <= Cardinality(other))

\* some larger threshold marks strictly fewer pixels than the call has marked
C9_Witness ==
    /\ pc = "mapped"
    /\ differencePixelCount > 1
    /\ \E t \in Thresholds :
          /\ t > params.colorThreshold
          /\ Cardinality(BuildDiffMap(originalImg, modifiedImg, params.blurRadius, t))
                \in 1 .. differencePixelCount - 1

-----------------------------------------------------------------------------
(* Scenario D: two squares of side 10, 200 pixels apart *)

\* both squares are found as regions and both pass the region filters
BothSquaresPass ==
    Len(regions) = 2 /\ Len(FilterRegions(regions, params)) = 2

\* the extents (max - min) of the box around both squares
PairSpanX == SetMax({p[1] : p \in modifiedImg.painted}) - SetMin({p[1] : p \in modifiedImg.painted})
PairSpanY == SetMax({p[2] : p \in modifiedImg.painted}) - SetMin({p[2] : p \in modifiedImg.painted})

\* an extent, over the smaller image dimension, is below maxRegionSizePercent
BelowMaxPercent(extent) ==
    extent * 100 < params.maxRegionSizePercent * Min(width, height)

\* C10 as stated: for two disjoint differing squares of side 10, 200 pixels
\* apart, that both pass the region filters, the call returns two Differences
\* when mergeDistance is 5 and exactly one when mergeDistance is 250.
C10_TwoThenOne ==
    (ScenarioD /\ Returned /\ BothSquaresPass) =>
        /\ params.mergeDistance = 5 => Len(differences) = 2
        /\ params.mergeDistance = 250 => Len(differences) = 1

\* C10 with the maximum-size rule counted in: with mergeDistance 5 the two
\* regions stay apart and give two Differences when a square's extent (9) is
\* below maxRegionSizePercent of the smaller image dimension, and none
\* otherwise; with mergeDistance 250 they merge into one region, which gives
\* exactly one Difference, centred on the box around both squares, when the
\* extents of that box are below maxRegionSizePercent of the smaller image
\* dimension, and none otherwise.
C10_TwoThenOneIfSmallEnough ==
    (ScenarioD /\ Returned /\ BothSquaresPass) =>
        /\ params.mergeDistance = 5 =>
              /\ Len(mergedRegions) = 2
              /\ Len(differences) = (IF BelowMaxPercent(9) THEN 2 ELSE 0)
        /\ params.mergeDistance = 250 =>
              /\ Len(mergedRegions) = 1
              /\ Len(differences) =
                    (IF BelowMaxPercent(PairSpanX) /\ BelowMaxPercent(PairSpanY) THEN 1 ELSE 0)
              /\ Len(differences) = 1 =>
                    LET c == Denormalized(differences[1])
                        minX == SetMin({p[1] : p \in modifiedImg.painted})
                        minY == SetMin({p[2] : p \in modifiedImg.painted})
                    IN  /\ c.x = Frac(2 * minX + PairSpanX, 2)
                        /\ c.y = Frac(2 * minY + PairSpanY, 2)
                        /\ c.radius = Frac(Max(PairSpanX, PairSpanY) * params.circleRadiusMultiplier, 200)

\* the merged region of the two squares is returned as the one Difference
C10_Witness ==
    /\ ScenarioD /\ Returned /\ BothSquaresPass
    /\ params.mergeDistance = 250
    /\ Len(mergedRegions) = 1
    /\ Len(differences) = 1

-----------------------------------------------------------------------------
(* Scenarios B and C: a red square of side 20 on a 100 x 100 background *)

\* the images of scenario B, with its colorThreshold and minRegionSize
ScenarioB ==
    /\ originalImg = Image(100, 100, Gray, Red, {})
    /\ modifiedImg = Image(100, 100, Gray, Red, Square(40, 40, 20))
    /\ params.colorThreshold = 40
    /\ params.minRegionSize = 50

\* C11: in scenario B the call returns exactly one Difference, its center is
\* (0.495, 0.495) and its radius is positive.
C11_ScenarioB ==
    (ScenarioB /\ Returned) =>
        /\ Len(differences) = 1
        /\ differences[1].x = <<99, 200>>
        /\ differences[1].y = <<99, 200>>
        /\ FracLess(<<0, 1>>, differences[1].radius)

\* scenario B has returned, from a region that is the square itself
C11_Witness ==
    /\ ScenarioB /\ Returned
    /\ regions = <<Region(40, 59, 40, 59, 400)>>
    /\ Len(differences) = 1

\* the images of scenario B on a background of some gray level, with
\* colorThreshold 255
ScenarioC ==
    /\ params.colorThreshold = 255
    /\ params.blurRadius = 0
    /\ \E level \in 0 .. 255 :
          /\ originalImg = Image(100, 100, GrayLevel(level), Red, {})
          /\ modifiedImg = Image(100, 100, GrayLevel(level), Red, Square(40, 40, 20))

\* C12 as stated: in scenario C, whatever the gray level of the background,
\* no pixel is marked as different and the call returns the empty sequence.
C12_NothingExceeds255 ==
    (ScenarioC /\ pc \notin {"start", "canvas"}) =>
        /\ diffMap = {}
        /\ Returned => differences = <<>>

\* C12 for the gray levels it is true of: in scenario C on a background of
\* gray level at most 170 no pixel is marked, the call leaves by the early
\* exit and returns the empty sequence; on a lighter background the pixels of
\* the square are marked.
C12_NothingExceeds255OnDarkGray ==
    (ScenarioC /\ pc \notin {"start", "canvas"}) =>
        IF originalImg.bg[1] <= 170
        THEN /\ diffMap = {}
             /\ pc \in {"mapped", "done"}
             /\ regions = <<>>
             /\ pc = "done" => (outcome = "resolved" /\ differences = <<>>)
        ELSE differencePixelCount = 400

\* scenario C has returned on the lightest background whose distance to red
\* does not exceed 255
C12_Witness ==
    /\ ScenarioC /\ Returned
    /\ originalImg.bg = GrayLevel(170)
    /\ Distance2(originalImg.bg, Red) = 255 * 255
    /\ differences = <<>>

-----------------------------------------------------------------------------
(* The region labeler against the definition of an 8-connected component *)

\* the pixels set in the difference map
SetPixels == {<<i % width, i \div width>> : i \in diffMap}

\* two different pixels that touch by an edge or a corner
Adjacent(p, q) == p # q /\ Abs(p[1] - q[1]) <= 1 /\ Abs(p[2] - q[2]) <= 1

\* the pixels of P that a chain of adjacent pixels of P joins to one of S
RECURSIVE Reachable(_, _)
Reachable(S, P) ==
    LET T == S \cup {q \in P : \E s \in S : Adjacent(s, q)}
    IN  IF T = S THEN S ELSE Reachable(T, P)

\* the maximal 8-connected subsets of P: the one that holds a pixel of P,
\* and those of the rest
RECURSIVE Components(_)
Components(P) ==
    IF P = {} THEN {}
    ELSE LET C == Reachable({CHOOSE p \in P : TRUE}, P)
         IN  {C} \cup Components(P \ C)

\* the tight bounding box and the pixel count of a set of pixels
TightRegion(C) ==
    Region(SetMin({p[1] : p \in C}), SetMax({p[1] : p \in C}),
           SetMin({p[2] : p \in C}), SetMax({p[2] : p \in C}), Cardinality(C))

\* the raster index of the first pixel of a set of pixels
FirstIndex(C) == SetMin({p[2] * width + p[1] : p \in C})

RECURSIVE SumOfSizes(_)
SumOfSizes(rs) == IF rs = <<>> THEN 0 ELSE Head(rs).size + SumOfSizes(Tail(rs))

\* C13: the labeler returns one region per maximal 8-connected component of
\* the difference map, in the raster order of the components' first pixels,
\* each with the component's pixel count as size and its tight bounding box;
\* the sizes add up to the number of difference pixels.
C13_ExactComponents ==
    pc = "labelled" =>
        LET comps == Components(SetPixels)
        IN  /\ Len(regions) = Cardinality(comps)
            /\ \A C \in comps :
                  regions[1 + Cardinality({D \in comps : FirstIndex(D) < FirstIndex(C)})]
                      = TightRegion(C)
            /\ SumOfSizes(regions) = differencePixelCount
            /\ \A k \in 1 .. Len(regions) :
                  /\ regions[k].size >= 1
                  /\ regions[k].minX <= regions[k].maxX
                  /\ regions[k].minY <= regions[k].maxY

\* the labeler has returned at least two regions, one of them of three or
\* more pixels that do not fill its box
C13_Witness ==
    /\ pc = "labelled"
    /\ Len(regions) >= 2
    /\ \E k \in 1 .. Len(regions) :
          /\ regions[k].size >= 3
          /\ regions[k].size < (regions[k].maxX - regions[k].minX + 1)
                                  * (regions[k].maxY - regions[k].minY + 1)

-----------------------------------------------------------------------------
(* The stages after the labeler, on the regions of a few shapes *)

\* the stages from the region filter to the final map, on a list of regions
Downstream(rs) ==
    ToDifferences(
        filterOverlappingCircles(
            ToCircles(
                DropLargeRegions(
                    mergeNearbyRegions(FilterRegions(rs, params), params.mergeDistance),
                    width, height, params),
                params)),
        width, height)

\* the orders in which a list of n elements can be put
Orders(n) == {f \in [1 .. n -> 1 .. n] : \A a, b \in 1 .. n : f[a] = f[b] => a = b}

Permuted(rs, f) == [k \in 1 .. Len(rs) |-> rs[f[k]]]

\* C14: whatever the order of the regions the labeler returns, the filter,
\* the merger and the circle stages yield the same sequence of Differences.
C14_OrderInsignificant ==
    pc = "labelled" =>
        \A f \in Orders(Len(regions)) :
            Downstream(Permuted(regions, f)) = Downstream(regions)

\* a is in the list rs
InList(a, rs) == \E k \in 1 .. Len(rs) : rs[k] = a

BoxWidth(r) == r.maxX - r.minX + 1
BoxHeight(r) == r.maxY - r.minY + 1

\* C15: a region that the size and density rules keep is in the output of
\* the filter exactly when its width / height lies in the closed interval
\* [minAspectRatio, maxAspectRatio].
C15_AspectClosedInterval ==
    pc = "filtered" =>
        \A k \in 1 .. Len(regions) :
            LET r == regions[k]
            IN  (/\ r.size >= params.minRegionSize
                 /\ r.size * 100 > params.minDensity * BoxWidth(r) * BoxHeight(r))
                => (InList(r, filteredRegions)
                      <=> (/\ BoxWidth(r) * 100 >= params.minAspectRatio * BoxHeight(r)
                           /\ BoxWidth(r) * 100 <= params.maxAspectRatio * BoxHeight(r)))

\* C16: a region that the size rule keeps and whose aspect ratio lies
\* strictly inside the interval is dropped exactly when its box is empty, or
\* its density is below minDensity and its size is at most
\* 10 x minRegionSize; at a density equal to minDensity it is kept.
C16_DensityAtLeast ==
    pc = "filtered" =>
        \A k \in 1 .. Len(regions) :
            LET r == regions[k]
                area == BoxWidth(r) * BoxHeight(r)
            IN  (/\ r.size >= params.minRegionSize
                 /\ BoxWidth(r) * 100 > params.minAspectRatio * BoxHeight(r)
                 /\ BoxWidth(r) * 100 < params.maxAspectRatio * BoxHeight(r))
                => (~InList(r, filteredRegions)
                      <=> (\/ area = 0
                           \/ (/\ r.size * 100 < params.minDensity * area
                               /\ r.size <= params.minRegionSize * 10)))

\* a is b with some elements left out
IsSubsequence(a, b) ==
    \E f \in [1 .. Len(a) -> 1 .. Len(b)] :
        /\ \A k \in 1 .. Len(a) : a[k] = b[f[k]]
        /\ \A k \in 1 .. Len(a) - 1 : f[k] < f[k + 1]

\* C17: the output of the filter is a subsequence of its input; no region in
\* it is smaller than minRegionSize, and a region of exactly minRegionSize
\* pixels that the other two rules keep is in it.
C17_SubsequenceBySize ==
    pc = "filtered" =>
        /\ IsSubsequence(filteredRegions, regions)
        /\ \A k \in 1 .. Len(filteredRegions) :
              filteredRegions[k].size >= params.minRegionSize
        /\ \A k \in 1 .. Len(regions) :
              /\ regions[k].size < params.minRegionSize => ~InList(regions[k], filteredRegions)
              /\ (/\ regions[k].size = params.minRegionSize
                  /\ PassesAspectRatio(regions[k], params)
                  /\ PassesDensity(regions[k], params))
                 => InList(regions[k], filteredRegions)

\* the filter has dropped a region for its size and kept one of exactly
\* minRegionSize pixels
C17_Witness ==
    /\ pc = "filtered"
    /\ \E k \in 1 .. Len(regions) : regions[k].size < params.minRegionSize
    /\ \E k \in 1 .. Len(filteredRegions) : filteredRegions[k].size = params.minRegionSize
    /\ Len(filteredRegions) < Len(regions)

\* the regions the merger is given
MergerInput == FilterRegions(regions, params)

RECURSIVE SumOver(_, _)
SumOver(S, rs) ==
    IF S = {} THEN 0
    ELSE LET a == CHOOSE a \in S : TRUE IN rs[a].size + SumOver(S \ {a}, rs)

\* the box of inner lies inside the box of outer
Contains(outer, inner) ==
    /\ outer.minX <= inner.minX /\ inner.maxX <= outer.maxX
    /\ outer.minY <= inner.minY /\ inner.maxY <= outer.maxY

\* C18: the regions the merger returns are the unions of disjoint non-empty
\* groups of the regions it was given, one group per output region: the
\* box around the boxes of the group, the sum of its sizes.  So there are
\* no more regions than before, the sizes add up to the same total, and
\* every input box lies inside an output box.
C18_PartitionUnion ==
    pc = "merged" =>
        /\ Len(mergedRegions) <= Len(MergerInput)
        /\ SumOfSizes(mergedRegions) = SumOfSizes(MergerInput)
        /\ \A a \in 1 .. Len(MergerInput) :
              \E k \in 1 .. Len(mergedRegions) : Contains(mergedRegions[k], MergerInput[a])
        /\ \E group \in [1 .. Len(MergerInput) -> 1 .. Len(mergedRegions)] :
              \A k \in 1 .. Len(mergedRegions) :
                  LET G == {a \in 1 .. Len(MergerInput) : group[a] = k}
                  IN  /\ G # {}
                      /\ mergedRegions[k] =
                            Region(SetMin({MergerInput[a].minX : a \in G}),
                                   SetMax({MergerInput[a].maxX : a \in G}),
                                   SetMin({MergerInput[a].minY : a \in G}),
                                   SetMax({MergerInput[a].maxY : a \in G}),
                                   SumOver(G, MergerInput))

\* the merger has merged at least three of its regions
C18_Witness ==
    /\ pc = "merged"
    /\ Len(mergedRegions) >= 1
    /\ Len(MergerInput) >= Len(mergedRegions) + 2

\* the merger is inside its while loop
InMergerLoop == pc \in {"while", "for_i", "for_j"}

\* C19: the merger, once entered, returns.  Inside its loops the list is
\* never empty and never longer than the input; each merge shortens it by
\* exactly one; and the list returned is one on which a pass merges nothing.
C19_MergerTerminates ==
    /\ [](InMergerLoop =>
            (Len(filteredRegions) >= 1 /\ Len(filteredRegions) <= Len(MergerInput)))
    /\ [][(pc = "for_j" /\ mergedInPass' /\ filteredRegions' # filteredRegions)
             => Len(filteredRegions') = Len(filteredRegions) - 1]_vars
    /\ []((pc = "merged" /\ Len(MergerInput) >= 2) =>
             (/\ ~mergedInPass
              /\ ~MergePass(mergedRegions, 1, 2, FALSE, params.mergeDistance).wasMergedInPass))
    /\ (pc = "filtered") ~> (pc = "merged")

\* the merger has returned after a pass that merged and a later pass: one
\* region is left of three
C19_Witness ==
    /\ pc = "merged"
    /\ Len(MergerInput) = 3
    /\ Len(mergedRegions) = 1
    /\ ~mergedInPass
    /\ Len(MergePass(MergerInput, 1, 2, FALSE, params.mergeDistance).regions) = 2

\* C20: a merged region is dropped by the maximum-size rule exactly when its
\* box width (maxX - minX + 1) or box height (maxY - minY + 1), over the
\* smaller image dimension, exceeds maxRegionSizePercent.
C20_InclusiveMaximumSize ==
    pc = "sized" =>
        \A k \in 1 .. Len(mergedRegions) :
            ~InList(mergedRegions[k], finalRegions)
                <=> (\/ BoxWidth(mergedRegions[k]) * 100
                            > params.maxRegionSizePercent * Min(width, height)
                     \/ BoxHeight(mergedRegions[k]) * 100
                            > params.maxRegionSizePercent * Min(width, height))

-----------------------------------------------------------------------------
(* The circles *)

\* C21: the circle of a surviving region is centred on the midpoint of its
\* box and has radius max(boxWidth, boxHeight) / 2 x circleRadiusMultiplier,
\* boxWidth and boxHeight being the inclusive width and height of the box.
C21_CircleOfInclusiveBox ==
    pc = "circles" =>
        /\ Len(allCircles) = Len(finalRegions)
        /\ \A k \in 1 .. Len(finalRegions) :
              allCircles[k] =
                  Circle(Frac(finalRegions[k].minX + finalRegions[k].maxX, 2),
                         Frac(finalRegions[k].minY + finalRegions[k].maxY, 2),
                         Frac(Max(BoxWidth(finalRegions[k]), BoxHeight(finalRegions[k]))
                                  * params.circleRadiusMultiplier, 200))

\* the circles kept among the first n of the sorted list
KeptAmongFirst(n) ==
    {c \in {allCircles[m] : m \in 1 .. n} : InList(c, filteredCircles)}

\* C22: with the circles in descending order of radius, a circle is
\* discarded exactly when it overlaps (centerDistance < radius1 + radius2) a
\* circle kept before it; a discarded circle overlaps a kept circle that is
\* at least as large, and the first, largest circle is kept.
C22_GreedyLargerWins ==
    pc = "kept" =>
        /\ IsSubsequence(filteredCircles, allCircles)
        /\ \A k \in 1 .. Len(allCircles) - 1 :
              FracLeq(allCircles[k + 1].radius, allCircles[k].radius)
        /\ \A k \in 1 .. Len(allCircles) :
              /\ ~InList(allCircles[k], filteredCircles)
                    <=> \E c \in KeptAmongFirst(k - 1) : ~Apart(allCircles[k], c)
              /\ ~InList(allCircles[k], filteredCircles)
                    => \E m \in 1 .. Len(filteredCircles) :
                          /\ ~Apart(allCircles[k], filteredCircles[m])
                          /\ FracLeq(allCircles[k].radius, filteredCircles[m].radius)
        /\ allCircles # <<>> =>
              /\ filteredCircles # <<>>
              /\ filteredCircles[1] = allCircles[1]
              /\ \A k \in 1 .. Len(allCircles) :
                    FracLeq(allCircles[k].radius, filteredCircles[1].radius)

\* a circle has been discarded and two have been kept
C22_Witness ==
    /\ pc = "kept"
    /\ Len(filteredCircles) >= 2
    /\ Len(allCircles) > Len(filteredCircles)

-----------------------------------------------------------------------------
(* The difference mask *)

\* what the canvas gave back for the two images at the pixel of index n
OriginalData(n) == GetImageData(originalImg, params.blurRadius, n % width, n \div width)
ModifiedData(n) == GetImageData(modifiedImg, params.blurRadius, n % width, n \div width)

\* the sum of the squares of the differences in red, green and blue
SquaredRGBDistance(n) ==
    LET dr == OriginalData(n)[1] - ModifiedData(n)[1]
        dg == OriginalData(n)[2] - ModifiedData(n)[2]
        db == OriginalData(n)[3] - ModifiedData(n)[3]
    IN  dr * dr + dg * dg + db * db

\* C23: a pixel is set in the mask exactly when the distance over red, green
\* and blue between the two smoothed images is strictly greater than
\* colorThreshold; pixels that differ in alpha only are unset, a distance
\* equal to colorThreshold leaves the pixel unset, and the count is the
\* number of set pixels.
C23_MaskRule ==
    pc = "mapped" =>
        /\ \A n \in 0 .. width * height - 1 :
              /\ n \in diffMap
                    <=> SquaredRGBDistance(n) > params.colorThreshold * params.colorThreshold
              /\ (/\ OriginalData(n)[4] # ModifiedData(n)[4]
                  /\ SquaredRGBDistance(n) = 0) => n \notin diffMap
              /\ SquaredRGBDistance(n) = params.colorThreshold * params.colorThreshold
                    => n \notin diffMap
        /\ diffMap \subseteq 0 .. width * height - 1
        /\ differencePixelCount = Cardinality(diffMap)

\* the mask is built, nothing is set in it, and the two images differ in
\* alpha only at some pixel
C23_Witness ==
    /\ pc = "mapped"
    /\ diffMap = {}
    /\ \E n \in 0 .. width * height - 1 :
          /\ OriginalData(n)[4] # ModifiedData(n)[4]
          /\ SquaredRGBDistance(n) = 0

-----------------------------------------------------------------------------
(* The adaptive parameters *)

\* three times the brightness of the pixel (x, y) of the image data, which
\* was read from a canvas without a filter
Brightness3(imageData, x, y) ==
    LET p == GetImageData(imageData, 0, x, y) IN p[1] + p[2] + p[3]

\* Math.abs(currentBrightness - rightBrightness) > 25
\*     || Math.abs(currentBrightness - bottomBrightness) > 25
IsEdgePixel(imageData, x, y) ==
    \/ Abs(Brightness3(imageData, x, y) - Brightness3(imageData, x + 1, y)) > 3 * 25
    \/ Abs(Brightness3(imageData, x, y) - Brightness3(imageData, x, y + 1)) > 3 * 25

\* the pixels the two for loops of calculateImageComplexity visit
InteriorPixels(imageData) ==
    (1 .. imageData.naturalWidth - 2) \X (1 .. imageData.naturalHeight - 2)

edgeCount(imageData) ==
    Cardinality({p \in InteriorPixels(imageData) : IsEdgePixel(imageData, p[1], p[2])})

\* an edge count divided by the number of interior pixels
calculateImageComplexityOverInterior(imageData) ==
    Frac(edgeCount(imageData), Cardinality(InteriorPixels(imageData)))

\* edgeCount / (width * height), of an image that is not empty
calculateImageComplexity(imageData) ==
    Frac(edgeCount(imageData), imageData.naturalWidth * imageData.naturalHeight)

\* presets whose mergeDistance falls from 50 to 35 to 20
getAdaptiveParametersMergeFalls(c) ==
    IF FracLess(c, Frac(6, 100))
    THEN AnalysisParams(1, 40, 150, 50, 20, 10, 1000, 40, 130)
    ELSE IF FracLess(c, Frac(15, 100))
         THEN AnalysisParams(2, 55, 250, 35, 25, 10, 1000, 35, 120)
         ELSE AnalysisParams(2, 60, 300, 20, 28, 10, 1000, 30, 115)

\* the three presets; minDensity, the aspect ratios, maxRegionSizePercent and
\* circleRadiusMultiplier in hundredths
getAdaptiveParameters(c) ==
    IF FracLess(c, Frac(6, 100))
    THEN AnalysisParams(1, 40, 150, 25, 20, 10, 1000, 40, 130)
    ELSE IF FracLess(c, Frac(15, 100))
    THEN AnalysisParams(2, 55, 250, 35, 25, 10, 1000, 35, 120)
    ELSE AnalysisParams(2, 60, 300, 45, 28, 10, 1000, 30, 115)

-----------------------------------------------------------------------------
(* The game: App and ImageDisplay *)

MaxTimer == 10
MaxLoaders == 2
MaxMisses == 1
MaxGames == 1

\* Math.max(10, ...) of the duration field of ControlPanel
MinTimer == 10

\* what stands for a value of Date.now(): not zero, and no id of an analysis
Timestamp == 1000

\* a Difference of the game; foundTime 0 stands for null and for undefined
GameDifference(id, x, y, radius, foundTime) ==
    [id |-> id, x |-> x, y |-> y, radius |-> radius, foundTime |-> foundTime]

\* differences as analyzeDifferencesSafe resolves them, which have no foundTime
Unfound(ds) ==
    [k \in 1 .. Len(ds) |-> GameDifference(ds[k].id, ds[k].x, ds[k].y, ds[k].radius, 0)]

\* differences.map((d, i) => ({...d, id: d.id || Date.now() + i, foundTime: null}))
Loaded(ds) ==
    [k \in 1 .. Len(ds) |->
        GameDifference(IF ds[k].id # 0 THEN ds[k].id ELSE Timestamp + (k - 1),
                       ds[k].x, ds[k].y, ds[k].radius, 0)]

\* gameData.differences.map(d => ({ ...d, foundTime: null }))
ResetFound(ds) == [k \in 1 .. Len(ds) |-> [ds[k] EXCEPT !.foundTime = 0]]

\* differences.map(d => d.id === difference.id ? { ...d, foundTime: Date.now() } : d)
MarkFound(ds, difference) ==
    [k \in 1 .. Len(ds) |->
        IF ds[k].id = difference.id THEN [ds[k] EXCEPT !.foundTime = Timestamp] ELSE ds[k]]

\* gameData?.differences.filter(d => d.foundTime).length || 0
differencesFound ==
    IF gameData = <<>> THEN 0
    ELSE Cardinality({k \in 1 .. Len(gameData[1].differences) :
                         gameData[1].differences[k].foundTime # 0})

GameData(original, modified, ds) ==
    [original |-> original, modified |-> modified, differences |-> ds]

\* vertical lines in every second column from x0 on, count of them
Stripes(x0, count) == {x0 + 2 * k : k \in 0 .. count - 1} \X (0 .. 9)

\* what generateImages may resolve to: 10 x 10 pairs that differ in a red
\* rectangle, on a plain ground, on one with a short line and on one striped
\* all over; a pair of two equal images; a pair of unequal heights
GeneratedPairs ==
    {[original |-> Image(10, 10, Gray, Red, ground),
      modified |-> Image(10, 10, Gray, Red, ground \cup Rectangle(1, 1, 7, 8))] :
        ground \in {{}, Rectangle(8, 0, 1, 5), Stripes(1, 5)}}
    \cup {[original |-> Image(10, 10, Gray, Red, {}), modified |-> Image(10, 10, Gray, Red, {})],
          [original |-> Image(10, 10, Gray, Red, {}), modified |-> Image(10, 11, Gray, Red, {})]}

\* the documents listGameSessions may resolve to: one with two circles that
\* overlap, saved with the ids 0 and 1 of an analysis, and one with one circle
SavedGames ==
    << [id |-> "a", original_image_url |-> Image(10, 10, Gray, Red, {}),
        modified_image_url |-> Image(10, 10, Gray, Red, Rectangle(2, 2, 7, 6)),
        differences |-> << GameDifference(0, <<1, 2>>, <<1, 2>>, <<3, 10>>, 0),
                           GameDifference(1, <<3, 5>>, <<1, 2>>, <<3, 10>>, 0) >>,
        timer_duration |-> MinTimer],
       [id |-> "b", original_image_url |-> Image(10, 10, Gray, Red, {}),
        modified_image_url |-> Image(10, 10, Gray, Red, Rectangle(2, 2, 1, 1)),
        differences |-> << GameDifference(5, <<1, 4>>, <<1, 4>>, <<1, 10>>, Timestamp) >>,
        timer_duration |-> MinTimer] >>

\* the settings ControlPanel may submit
Settings ==
    {[timerDuration |-> t, debugMode |-> d] : t \in MinTimer .. MaxTimer, d \in BOOLEAN}

\* the parameters DebugPanel may submit: within the ranges of TuningPanel,
\* minRegionSize at its least, 50
TunedParams == {AnalysisParams(0, 40, 50, 10, 20, 10, 1000, 80, 100)}

\* where the player may click, in pixels of the canvas
ClickPoints == {<<5, 5>>, <<8, 5>>, <<9, 5>>, <<2, 2>>, <<0, 9>>}

engineVars == <<originalImg, modifiedImg, params, pc, outcome, error, diffMap,
                differencePixelCount, regions, filteredRegions, mergedRegions,
                finalRegions, allCircles, filteredCircles, differences,
                loopI, loopJ, mergedInPass>>

\* no analysis is running
EngineIdle ==
    /\ originalImg = Image(0, 0, Gray, Red, {})
    /\ modifiedImg = Image(0, 0, Gray, Red, {})
    /\ params \in TunedParams
    /\ pc = "idle"
    /\ outcome = "pending"
    /\ error = ""
    /\ diffMap = {}
    /\ differencePixelCount = 0
    /\ regions = <<>>
    /\ filteredRegions = <<>>
    /\ mergedRegions = <<>>
    /\ finalRegions = <<>>
    /\ allCircles = <<>>
    /\ filteredCircles = <<>>
    /\ differences = <<>>
    /\ loopI = 0
    /\ loopJ = 0
    /\ mergedInPass = FALSE

InitGame == AppStart /\ EngineIdle

\* findDifferences as a whole, which runs without a break: the message of
\* the Error it throws, "" if none, and the differences it returns
findDifferences(original, modified, p) ==
    LET w == original.naturalWidth
        h == original.naturalHeight
        map == BuildDiffMap(original, modified, p.blurRadius, p.colorThreshold)
    IN  IF DimensionError(original, modified) # ""
        THEN [error |-> DimensionError(original, modified), differences |-> <<>>]
        ELSE IF map = {} THEN [error |-> "", differences |-> <<>>]
        ELSE [error |-> "",
              differences |->
                  ToDifferences(
                      filterOverlappingCircles(
                          ToCircles(
                              DropLargeRegions(
                                  mergeNearbyRegions(
                                      FilterRegions(findConnectedComponents(map, w, h), p),
                                      p.mergeDistance),
                                  w, h, p),
                              p)),
                      w, h)]

\* analyzeDifferencesSafe(original, modified, p) is called; the three
\* variables hold its arguments until its promise is settled
StartEngine(original, modified, p) ==
    /\ originalImg' = original
    /\ modifiedImg' = modified
    /\ params' = p
    /\ UNCHANGED <<pc, outcome, error, diffMap, differencePixelCount, regions,
                   filteredRegions, mergedRegions, finalRegions, allCircles,
                   filteredCircles, differences, loopI, loopJ, mergedInPass>>

\* the promise of analyzeDifferencesSafe is settled
EngineTaken ==
    /\ originalImg' = Image(0, 0, Gray, Red, {})
    /\ modifiedImg' = Image(0, 0, Gray, Red, {})
    /\ params' \in TunedParams
    /\ UNCHANGED <<pc, outcome, error, diffMap, differencePixelCount, regions,
                   filteredRegions, mergedRegions, finalRegions, allCircles,
                   filteredCircles, differences, loopI, loopJ, mergedInPass>>

\* the passive effects of the last commit have run
EffectsDone == ~winCheck

\* controlPanelSettings?.debugMode
DebugModeOf(cps) == cps # <<>> /\ cps[1].debugMode

\* room for one more pair of loading images
CanLoad == Len(loaders) < MaxLoaders

\* the image-loading effect of ImageDisplay, which runs when gameData or
\* onImagesReady changed: a pair of images starts loading, whose onload
\* handlers hold the onImagesReady of this render
LoadersAfter(v, gd, cps) ==
    IF v = "game" /\ gd # <<>>
    THEN Append(loaders, [debugMode |-> DebugModeOf(cps), mounted |-> TRUE])
    ELSE loaders

\* the countdown effect of ImageDisplay, which runs when gameState,
\* areImagesLoaded or onStartGame changed
CountdownAfter(v, gs, loaded, cps) ==
    IF v # "game" THEN 0
    ELSE IF view = "game" /\ <<gs, loaded, cps>> = <<gameState, areImagesLoaded, controlPanelSettings>>
    THEN countdown
    ELSE IF gs = "ready" /\ loaded THEN 3 ELSE 0

\* ImageDisplay is mounted
Mount ==
    /\ areImagesLoaded' = FALSE
    /\ countdown' = 0
    /\ misses' = 0
    /\ gameData # <<>> => CanLoad
    /\ loaders' = LoadersAfter("game", gameData, controlPanelSettings)

\* ImageDisplay is unmounted: the images that are loading go on loading
Unmount ==
    /\ areImagesLoaded' = FALSE
    /\ countdown' = 0
    /\ misses' = 0
    /\ loaders' = [k \in 1 .. Len(loaders) |-> [loaders[k] EXCEPT !.mounted = FALSE]]

handleStartGenerator ==
    /\ view = "config"
    /\ EffectsDone
    /\ mode' = "generator"
    /\ view' = "game"
    /\ gameState' = "idle"
    /\ Mount
    /\ UNCHANGED <<gameData, isLoading, isTransitioning, appError,
                   controlPanelSettings, initialAnalysisParams, timer, score,
                   savedGames, playedGameIds, genPc, generated, complexity,
                   winCheck, games, engineVars>>

\* loadRandomGame on the saved games and the played ids given, in view v, and
\* the effects of ImageDisplay that follow the new gameData
loadRandomGame(v, saved, played) ==
    LET fresh == {k \in 1 .. Len(saved) : saved[k].id \notin played}
        availableGames == IF fresh = {} THEN 1 .. Len(saved) ELSE fresh
        before == IF fresh = {} THEN {} ELSE played
    IN  \E k \in availableGames :
          /\ gameData' = <<GameData(saved[k].original_image_url,
                                    saved[k].modified_image_url,
                                    Loaded(saved[k].differences))>>
          /\ controlPanelSettings' = <<[timerDuration |-> saved[k].timer_duration,
                                        debugMode |-> FALSE]>>
          /\ score' = 0
          /\ playedGameIds' = before \cup {saved[k].id}
          /\ gameState' = "idle"
          /\ appError' = ""
          /\ areImagesLoaded' = FALSE
          /\ CanLoad
          /\ loaders' = LoadersAfter(v, gameData', controlPanelSettings')
          /\ countdown' = 0
          /\ winCheck' = TRUE

\* handleStartPlayer up to the await of listGameSessions in fetchGamesFromDB
handleStartPlayer ==
    /\ view = "config"
    /\ EffectsDone
    /\ genPc = "none"
    /\ mode' = "player"
    /\ view' = "game"
    /\ isLoading' = TRUE
    /\ genPc' = "fetching"
    /\ IF savedGames # <<>> /\ gameData = <<>>
       THEN /\ isTransitioning' = TRUE
            /\ misses' = 0
            /\ loadRandomGame("game", savedGames, playedGameIds)
       ELSE /\ Mount
            /\ UNCHANGED <<gameState, gameData, isTransitioning, appError,
                           controlPanelSettings, score, playedGameIds, winCheck>>
    /\ UNCHANGED <<initialAnalysisParams, timer, savedGames, generated,
                   complexity, games, engineVars>>

\* listGameSessions resolves with games; the effect that loads the first game
\* runs in player mode, in the game view, when there is no game data
FetchGamesDone ==
    /\ genPc = "fetching"
    /\ EffectsDone
    /\ games < MaxGames
    /\ games' = games + 1
    /\ savedGames' = SavedGames
    /\ genPc' = "none"
    /\ IF mode = "player" /\ gameData = <<>> /\ view = "game"
       THEN /\ isTransitioning' = TRUE
            /\ loadRandomGame(view, savedGames', playedGameIds)
       ELSE /\ appError' = ""
            /\ UNCHANGED <<gameState, gameData, isTransitioning,
                           controlPanelSettings, score, playedGameIds,
                           areImagesLoaded, loaders, countdown, winCheck>>
    /\ UNCHANGED <<view, mode, isLoading, initialAnalysisParams, timer, misses,
                   generated, complexity, engineVars>>

\* listGameSessions resolves with no game or rejects
FetchGamesFailed ==
    /\ genPc = "fetching"
    /\ EffectsDone
    /\ appError' = "error"
    /\ isLoading' = FALSE
    /\ view' = "config"
    /\ genPc' = "none"
    /\ Unmount
    /\ UNCHANGED <<mode, gameState, gameData, isTransitioning,
                   controlPanelSettings, initialAnalysisParams, timer, score,
                   savedGames, playedGameIds, generated, complexity,
                   winCheck, games, engineVars>>

\* ControlPanel is on the screen and its button is not disabled
ControlPanelShown ==
    /\ view = "game"
    /\ mode = "generator"
    /\ gameState \in {"idle", "ready"}
    /\ ~isTransitioning
    /\ ~isLoading

\* DebugPanel is on the screen and its buttons are not disabled
DebugPanelShown ==
    /\ view = "game"
    /\ mode = "generator"
    /\ gameState = "debugging"
    /\ initialAnalysisParams # <<>>
    /\ ~isTransitioning
    /\ ~isLoading

\* GameSummary is on the screen
GameSummaryShown ==
    /\ view = "game"
    /\ gameData # <<>>
    /\ controlPanelSettings # <<>>
    /\ ~isTransitioning
    /\ \/ mode = "player"
       \/ mode = "generator" /\ gameState \in {"playing", "finished"}

\* handleGenerate(settings) up to the await of generateImages
handleGenerate ==
    /\ ControlPanelShown
    /\ EffectsDone
    /\ genPc = "none"
    /\ games < MaxGames
    /\ games' = games + 1
    /\ \E settings \in Settings : controlPanelSettings' = <<settings>>
    /\ isLoading' = TRUE
    /\ appError' = ""
    /\ gameData' = <<>>
    /\ gameState' = "idle"
    /\ genPc' = "generating"
    /\ areImagesLoaded' = FALSE
    /\ countdown' = 0
    /\ winCheck' = TRUE
    /\ UNCHANGED <<view, mode, isTransitioning, initialAnalysisParams, timer,
                   score, savedGames, playedGameIds, misses, loaders, generated,
                   complexity, engineVars>>

\* generateImages resolves: the temporary game data, with no differences, up
\* to the await of the image that is loaded for the analysis
GenerateImagesDone ==
    /\ genPc = "generating"
    /\ EffectsDone
    /\ \E pair \in GeneratedPairs :
          /\ generated' = <<pair>>
          /\ gameData' = <<GameData(pair.original, pair.modified, <<>>)>>
    /\ genPc' = "converting"
    /\ view = "game" => CanLoad
    /\ loaders' = LoadersAfter(view, gameData', controlPanelSettings)
    /\ areImagesLoaded' = FALSE
    /\ countdown' = CountdownAfter(view, gameState, FALSE, controlPanelSettings)
    /\ winCheck' = TRUE
    /\ UNCHANGED <<view, mode, gameState, isLoading, isTransitioning, appError,
                   controlPanelSettings, initialAnalysisParams, timer, score,
                   savedGames, playedGameIds, misses, complexity, games, engineVars>>

\* the image is loaded: the complexity, the adaptive parameters, and the call
\* of analyzeDifferencesSafe
StartAnalysis ==
    /\ genPc = "converting"
    /\ EffectsDone
    /\ complexity' = calculateImageComplexity(generated[1].original)
    /\ initialAnalysisParams' = <<getAdaptiveParameters(complexity')>>
    /\ StartEngine(generated[1].original, generated[1].modified,
                   getAdaptiveParameters(complexity'))
    /\ genPc' = "analyzing"
    /\ UNCHANGED <<view, mode, gameState, gameData, isLoading, isTransitioning,
                   appError, controlPanelSettings, timer, score, savedGames,
                   playedGameIds, areImagesLoaded, countdown, misses, loaders,
                   generated, winCheck, games>>

\* analyzeDifferencesSafe resolves: the final game data, up to the await of
\* saveGameSession
AnalysisDone ==
    /\ genPc = "analyzing"
    /\ EffectsDone
    /\ findDifferences(originalImg, modifiedImg, params).error = ""
    /\ gameData' = <<GameData(generated[1].original, generated[1].modified,
                              Unfound(findDifferences(originalImg, modifiedImg, params).differences))>>
    /\ genPc' = "saving"
    /\ EngineTaken
    /\ view = "game" => CanLoad
    /\ loaders' = LoadersAfter(view, gameData', controlPanelSettings)
    /\ areImagesLoaded' = FALSE
    /\ countdown' = CountdownAfter(view, gameState, FALSE, controlPanelSettings)
    /\ winCheck' = TRUE
    /\ UNCHANGED <<view, mode, gameState, isLoading, isTransitioning, appError,
                   controlPanelSettings, initialAnalysisParams, timer, score,
                   savedGames, playedGameIds, misses, generated, complexity, games>>

\* saveGameSession resolves
SaveDone ==
    /\ genPc = "saving"
    /\ EffectsDone
    /\ genPc' = "none"
    /\ generated' = <<>>
    /\ complexity' = <<0, 1>>
    /\ UNCHANGED <<view, mode, gameState, gameData, isLoading, isTransitioning,
                   appError, controlPanelSettings, initialAnalysisParams, timer,
                   score, savedGames, playedGameIds, areImagesLoaded, countdown,
                   misses, loaders, winCheck, games, engineVars>>

\* saveGameSession rejects
SaveFailed ==
    /\ genPc = "saving"
    /\ EffectsDone
    /\ appError' = "error"
    /\ genPc' = "none"
    /\ generated' = <<>>
    /\ complexity' = <<0, 1>>
    /\ UNCHANGED <<view, mode, gameState, gameData, isLoading, isTransitioning,
                   controlPanelSettings, initialAnalysisParams, timer,
                   score, savedGames, playedGameIds, areImagesLoaded, countdown,
                   misses, loaders, winCheck, games, engineVars>>

\* the promise of analyzeDifferencesSafe may reject: an image may fail to
\* load whatever the images are, and findDifferences may throw
AnalysisRejects == TRUE

\* the catch of handleGenerate
GenerationFailed ==
    /\ EffectsDone
    /\ \/ genPc \in {"generating", "converting"} /\ UNCHANGED engineVars
       \/ genPc = "analyzing" /\ AnalysisRejects /\ EngineTaken
    /\ appError' = "error"
    /\ gameState' = "idle"
    /\ isLoading' = FALSE
    /\ genPc' = "none"
    /\ generated' = <<>>
    /\ complexity' = <<0, 1>>
    /\ countdown' = CountdownAfter(view, "idle", areImagesLoaded, controlPanelSettings)
    /\ UNCHANGED <<view, mode, gameData, isTransitioning, controlPanelSettings,
                   initialAnalysisParams, timer, score, savedGames,
                   playedGameIds, areImagesLoaded, misses, loaders, winCheck, games>>

\* handleReanalyze(newParams) up to the await of analyzeDifferencesSafe
handleReanalyze ==
    /\ DebugPanelShown
    /\ EffectsDone
    /\ genPc = "none"
    /\ gameData # <<>>
    /\ isLoading' = TRUE
    /\ appError' = ""
    /\ \E newParams \in TunedParams :
          StartEngine(gameData[1].original, gameData[1].modified, newParams)
    /\ genPc' = "reanalyzing"
    /\ UNCHANGED <<view, mode, gameState, gameData, isTransitioning,
                   controlPanelSettings, initialAnalysisParams, timer, score,
                   savedGames, playedGameIds, areImagesLoaded, countdown, misses,
                   loaders, generated, complexity, winCheck, games>>

\* analyzeDifferencesSafe resolves:
\* setGameData(prevData => prevData ? { ...prevData, differences } : null)
ReanalyzeDone ==
    /\ genPc = "reanalyzing"
    /\ EffectsDone
    /\ findDifferences(originalImg, modifiedImg, params).error = ""
    /\ EngineTaken
    /\ isLoading' = FALSE
    /\ genPc' = "none"
    /\ IF gameData = <<>>
       THEN UNCHANGED <<gameData, loaders, areImagesLoaded, countdown, winCheck>>
       ELSE /\ gameData' = <<[gameData[1] EXCEPT !.differences =
                                 Unfound(findDifferences(originalImg, modifiedImg, params).differences)]>>
            /\ view = "game" => CanLoad
            /\ loaders' = LoadersAfter(view, gameData', controlPanelSettings)
            /\ areImagesLoaded' = FALSE
            /\ countdown' = CountdownAfter(view, gameState, FALSE, controlPanelSettings)
            /\ winCheck' = TRUE
    /\ UNCHANGED <<view, mode, gameState, isTransitioning, appError,
                   controlPanelSettings, initialAnalysisParams, timer, score,
                   savedGames, playedGameIds, misses, generated, complexity, games>>

\* analyzeDifferencesSafe rejects
ReanalyzeFailed ==
    /\ genPc = "reanalyzing"
    /\ EffectsDone
    /\ AnalysisRejects
    /\ EngineTaken
    /\ appError' = "error"
    /\ isLoading' = FALSE
    /\ genPc' = "none"
    /\ UNCHANGED <<view, mode, gameState, gameData, isTransitioning,
                   controlPanelSettings, initialAnalysisParams, timer, score,
                   savedGames, playedGameIds, areImagesLoaded, countdown, misses,
                   loaders, generated, complexity, winCheck, games>>

\* the sequence without its k-th element
Without(s, k) == SubSeq(s, 1, k - 1) \o SubSeq(s, k + 1, Len(s))

\* both images of a pair are loaded: onImagesReady(), which is the
\* handleImagesReady of the render that started them, then
\* setAreImagesLoaded(true)
ImagesLoaded ==
    /\ EffectsDone
    /\ \E k \in 1 .. Len(loaders) :
          /\ loaders' = Without(loaders, k)
          /\ gameState' = IF gameState # "idle" THEN gameState
                          ELSE IF loaders[k].debugMode THEN "debugging" ELSE "ready"
          /\ areImagesLoaded' = (loaders[k].mounted \/ areImagesLoaded)
    /\ isLoading' = FALSE
    /\ isTransitioning' = FALSE
    /\ countdown' = CountdownAfter(view, gameState', areImagesLoaded', controlPanelSettings)
    /\ UNCHANGED <<view, mode, gameData, appError, controlPanelSettings,
                   initialAnalysisParams, timer, score, savedGames,
                   playedGameIds, misses, genPc, generated, complexity,
                   winCheck, games, engineVars>>

\* an image of a pair fails to load: onerror, and the pair never counts two
ImageLoadError ==
    /\ EffectsDone
    /\ \E k \in 1 .. Len(loaders) : loaders' = Without(loaders, k)
    /\ UNCHANGED <<view, mode, gameState, gameData, isLoading, isTransitioning,
                   appError, controlPanelSettings, initialAnalysisParams, timer,
                   score, savedGames, playedGameIds, areImagesLoaded, countdown,
                   misses, genPc, generated, complexity, winCheck, games, engineVars>>

\* a tick of the interval of the countdown effect; at the last one
\* onStartGame(), which is handleStartTimer
CountdownTick ==
    /\ EffectsDone
    /\ view = "game"
    /\ gameState = "ready"
    /\ areImagesLoaded
    /\ countdown > 0
    /\ IF countdown <= 1
       THEN /\ countdown' = 0
            /\ IF controlPanelSettings = <<>>
               THEN UNCHANGED <<timer, gameState>>
               ELSE /\ timer' = controlPanelSettings[1].timerDuration
                    /\ gameState' = "playing"
       ELSE /\ countdown' = countdown - 1
            /\ UNCHANGED <<timer, gameState>>
    /\ UNCHANGED <<view, mode, gameData, isLoading, isTransitioning, appError,
                   controlPanelSettings, initialAnalysisParams, score,
                   savedGames, playedGameIds, areImagesLoaded, misses, loaders,
                   genPc, generated, complexity, winCheck, games, engineVars>>

\* a timer that counts two seconds at a tick
TickByTwo(prevTimer) == IF prevTimer <= 1 THEN 0 ELSE prevTimer - 2
\* prevTimer => prevTimer <= 1 ? 0 : prevTimer - 1
TickOf(prevTimer) == IF prevTimer <= 1 THEN 0 ELSE prevTimer - 1

\* a tick of the interval of the game timer effect, which is set while
\* gameState is 'playing' and timer is above 0
Tick ==
    /\ EffectsDone
    /\ gameState = "playing"
    /\ timer > 0
    /\ timer' = TickOf(timer)
    /\ gameState' = IF timer <= 1 THEN "finished" ELSE gameState
    /\ countdown' = CountdownAfter(view, gameState', areImagesLoaded, controlPanelSettings)
    /\ UNCHANGED <<view, mode, gameData, isLoading, isTransitioning, appError,
                   controlPanelSettings, initialAnalysisParams, score,
                   savedGames, playedGameIds, areImagesLoaded, misses, loaders,
                   genPc, generated, complexity, winCheck, games, engineVars>>

\* the square of the distance from the click to the centre of the circle, and
\* the square of its radius, in pixels of a canvas of the size given
ClickDistance2(diff, point, w, h) ==
    LET dx == FracSub(<<point[1], 1>>, FracMulInt(diff.x, w))
        dy == FracSub(<<point[2], 1>>, FracMulInt(diff.y, h))
    IN  FracAdd(FracMul(dx, dx), FracMul(dy, dy))
ClickRadius2(diff, w, h) ==
    LET radius == FracMulInt(diff.radius, Min(w, h)) IN FracMul(radius, radius)

\* a click that has to fall inside the circle, not on it
IsHitInside(diff, point, w, h) ==
    FracLess(ClickDistance2(diff, point, w, h), ClickRadius2(diff, w, h))
\* distance <= radius
IsHit(diff, point, w, h) ==
    FracLeq(ClickDistance2(diff, point, w, h), ClickRadius2(diff, w, h))

\* the for loop of handleCanvasClick: the index of the first difference that
\* is not found and is hit, 0 if there is none
FirstMatch(ds, point, w, h) ==
    LET matches == {k \in 1 .. Len(ds) : ds[k].foundTime = 0 /\ IsHit(ds[k], point, w, h)}
    IN  IF matches = {} THEN 0 ELSE SetMin(matches)

\* the canvases are on the screen and take clicks
CanvasShown ==
    /\ view = "game"
    /\ gameData # <<>>
    /\ ~isLoading
    /\ ~isTransitioning
    /\ appError = ""
    /\ areImagesLoaded
    /\ gameState = "playing"

\* handleCanvasClick while playing, with handleDifferenceFound
handleCanvasClick(point) ==
    /\ CanvasShown
    /\ EffectsDone
    /\ LET ds == gameData[1].differences
           w == gameData[1].original.naturalWidth
           h == gameData[1].original.naturalHeight
           k == FirstMatch(ds, point, w, h)
       IN  IF k # 0
           THEN /\ score' = score + 1
                /\ gameData' = <<[gameData[1] EXCEPT !.differences = MarkFound(ds, ds[k])]>>
                /\ CanLoad
                /\ loaders' = LoadersAfter(view, gameData', controlPanelSettings)
                /\ areImagesLoaded' = FALSE
                /\ winCheck' = TRUE
                /\ UNCHANGED misses
           ELSE /\ misses < MaxMisses
                /\ misses' = misses + 1
                /\ UNCHANGED <<score, gameData, loaders, areImagesLoaded, winCheck>>
    /\ UNCHANGED <<view, mode, gameState, isLoading, isTransitioning, appError,
                   controlPanelSettings, initialAnalysisParams, timer,
                   savedGames, playedGameIds, countdown, genPc, generated,
                   complexity, games, engineVars>>

CanvasClick == \E point \in ClickPoints : handleCanvasClick(point)

\* the animation of the miss marks is over: setMisses([])
ClearMisses ==
    /\ EffectsDone
    /\ view = "game"
    /\ gameData # <<>>
    /\ areImagesLoaded
    /\ misses > 0
    /\ misses' = 0
    /\ UNCHANGED <<view, mode, gameState, gameData, isLoading, isTransitioning,
                   appError, controlPanelSettings, initialAnalysisParams, timer,
                   score, savedGames, playedGameIds, areImagesLoaded, countdown,
                   loaders, genPc, generated, complexity, winCheck, games, engineVars>>

handlePlayAgain ==
    /\ GameSummaryShown
    /\ EffectsDone
    /\ IF mode = "player"
       THEN /\ isTransitioning' = TRUE
            /\ loadRandomGame(view, savedGames, playedGameIds)
       ELSE /\ gameData' = <<[gameData[1] EXCEPT
                                 !.differences = ResetFound(gameData[1].differences)]>>
            /\ score' = 0
            /\ gameState' = "ready"
            /\ CanLoad
            /\ loaders' = LoadersAfter(view, gameData', controlPanelSettings)
            /\ areImagesLoaded' = FALSE
            /\ countdown' = 0
            /\ winCheck' = TRUE
            /\ UNCHANGED <<isTransitioning, controlPanelSettings, playedGameIds, appError>>
    /\ UNCHANGED <<view, mode, isLoading, initialAnalysisParams, timer,
                   savedGames, misses, genPc, generated, complexity, games, engineVars>>

handleReturnToMenu ==
    /\ GameSummaryShown \/ DebugPanelShown
    /\ EffectsDone
    /\ gameState' = "idle"
    /\ gameData' = <<>>
    /\ appError' = ""
    /\ score' = 0
    /\ timer' = 0
    /\ view' = "config"
    /\ mode' = "none"
    /\ savedGames' = <<>>
    /\ playedGameIds' = {}
    /\ Unmount
    /\ winCheck' = TRUE
    /\ UNCHANGED <<isLoading, isTransitioning, controlPanelSettings,
                   initialAnalysisParams, genPc, generated, complexity,
                   games, engineVars>>

handlePrepareToPlay ==
    /\ DebugPanelShown
    /\ EffectsDone
    /\ gameData # <<>>
    /\ controlPanelSettings # <<>>
    /\ score' = 0
    /\ gameState' = "ready"
    /\ countdown' = CountdownAfter(view, "ready", areImagesLoaded, controlPanelSettings)
    /\ UNCHANGED <<view, mode, gameData, isLoading, isTransitioning, appError,
                   controlPanelSettings, initialAnalysisParams, timer,
                   savedGames, playedGameIds, areImagesLoaded, misses, loaders,
                   genPc, generated, complexity, winCheck, games, engineVars>>

\* a win condition that does not ask for a difference
HasWonWithNone(gd) ==
    gd # <<>> /\ \A k \in 1 .. Len(gd[1].differences) : gd[1].differences[k].foundTime # 0
\* gameData && gameData.differences.length > 0
\*     && differencesFound === gameData.differences.length
HasWon(gd) ==
    /\ gd # <<>>
    /\ Len(gd[1].differences) > 0
    /\ \A k \in 1 .. Len(gd[1].differences) : gd[1].differences[k].foundTime # 0

\* the win-condition effect, which runs when gameData changed
WinEffect ==
    /\ winCheck
    /\ winCheck' = FALSE
    /\ gameState' = IF HasWon(gameData) THEN "finished" ELSE gameState
    /\ countdown' = CountdownAfter(view, gameState', areImagesLoaded, controlPanelSettings)
    /\ UNCHANGED <<view, mode, gameData, isLoading, isTransitioning, appError,
                   controlPanelSettings, initialAnalysisParams, timer, score,
                   savedGames, playedGameIds, areImagesLoaded, misses, loaders,
                   genPc, generated, complexity, games, engineVars>>

\* the handlers and callbacks of App and ImageDisplay
NextGame ==
    \/ handleStartGenerator
    \/ handleStartPlayer
    \/ FetchGamesDone
    \/ FetchGamesFailed
    \/ handleGenerate
    \/ GenerateImagesDone
    \/ StartAnalysis
    \/ AnalysisDone
    \/ SaveDone
    \/ SaveFailed
    \/ GenerationFailed
    \/ handleReanalyze
    \/ ReanalyzeDone
    \/ ReanalyzeFailed
    \/ ImagesLoaded
    \/ ImageLoadError
    \/ CountdownTick
    \/ Tick
    \/ CanvasClick
    \/ ClearMisses
    \/ handlePlayAgain
    \/ handleReturnToMenu
    \/ handlePrepareToPlay
    \/ WinEffect

\* the intervals fire while they are set, and an effect that is due runs
SpecGame == InitGame /\ [][NextGame]_vars /\ WF_vars(Tick) /\ WF_vars(WinEffect)

-----------------------------------------------------------------------------
(* The adaptive parameters of a generated game *)

\* the edge pixels of an image, counted on its pixels one by one
EdgePixels(img) ==
    LET b(x, y) == PixelAt(img, x, y)[1] + PixelAt(img, x, y)[2] + PixelAt(img, x, y)[3]
    IN  {p \in (1 .. img.naturalWidth - 2) \X (1 .. img.naturalHeight - 2) :
            \/ Abs(b(p[1], p[2]) - b(p[1] + 1, p[2])) > 75
            \/ Abs(b(p[1], p[2]) - b(p[1], p[2] + 1)) > 75}

InteriorCount(img) == (img.naturalWidth - 2) * (img.naturalHeight - 2)

\* C24 as stated: the complexity of the original image is the number of its
\* edge pixels divided by the number of its interior pixels,
\* (width - 2) x (height - 2), so that an image whose interior pixels are all
\* edge pixels scores exactly 1.
C24_OverInteriorPixels ==
    genPc = "analyzing" =>
        LET img == generated[1].original
        IN  /\ complexity = Frac(Cardinality(EdgePixels(img)), InteriorCount(img))
            /\ Cardinality(EdgePixels(img)) = InteriorCount(img) => complexity = Frac(1, 1)

\* C24: the complexity of the original image is the number of its edge pixels
\* (interior pixels whose brightness differs from the right or the lower
\* neighbour by more than 25) divided by the number of all its pixels,
\* width x height; an image whose interior pixels are all edge pixels scores
\* (width - 2)(height - 2) / (width x height), which is below 1.
C24_OverAllPixels ==
    genPc = "analyzing" =>
        LET img == generated[1].original
            pixels == img.naturalWidth * img.naturalHeight
        IN  /\ complexity = Frac(Cardinality(EdgePixels(img)), pixels)
            /\ Cardinality(EdgePixels(img)) = InteriorCount(img) =>
                   /\ complexity = Frac(InteriorCount(img), pixels)
                   /\ FracLess(complexity, Frac(1, 1))

\* an image striped all over is scored: every interior pixel is an edge pixel
C24_Witness ==
    /\ genPc = "analyzing"
    /\ InteriorCount(generated[1].original) > 0
    /\ Cardinality(EdgePixels(generated[1].original)) = InteriorCount(generated[1].original)
    /\ complexity = Frac(64, 100)

\* complexities on both sides of the two breakpoints, and the breakpoints
Scores == {Frac(n, 100) : n \in {0, 2, 5, 6, 10, 14, 15, 16, 20, 64, 100}}

\* C25 as stated: the mergeDistance selected never increases as the
\* complexity increases, the low preset (below 0.06) has a larger one than
\* the high preset (above 0.15), and the high preset has the smallest
\* circleRadiusMultiplier.
C25_MergeDistanceFalls ==
    genPc = "analyzing" =>
        \A c \in Scores :
            LET mine == initialAnalysisParams[1]
                other == getAdaptiveParameters(c)
            IN  /\ FracLess(complexity, c) => mine.mergeDistance >= other.mergeDistance
                /\ FracLess(complexity, Frac(6, 100)) /\ FracLess(Frac(15, 100), c) =>
                       mine.mergeDistance > other.mergeDistance
                /\ FracLess(Frac(15, 100), c) =>
                       other.circleRadiusMultiplier <= mine.circleRadiusMultiplier

\* C25: the mergeDistance selected never decreases as the complexity
\* increases, the low preset (below 0.06) has a smaller one than the high
\* preset (above 0.15), and the high preset has the smallest
\* circleRadiusMultiplier.
C25_MergeDistanceRises ==
    genPc = "analyzing" =>
        \A c \in Scores :
            LET mine == initialAnalysisParams[1]
                other == getAdaptiveParameters(c)
            IN  /\ FracLess(complexity, c) => mine.mergeDistance <= other.mergeDistance
                /\ FracLess(complexity, Frac(6, 100)) /\ FracLess(Frac(15, 100), c) =>
                       mine.mergeDistance < other.mergeDistance
                /\ FracLess(Frac(15, 100), c) =>
                       other.circleRadiusMultiplier <= mine.circleRadiusMultiplier
                /\ FracLess(Frac(15, 100), c) /\ FracLess(complexity, Frac(15, 100)) =>
                       other.circleRadiusMultiplier < mine.circleRadiusMultiplier

\* the low preset is selected for a plain image
C25_Witness ==
    /\ genPc = "analyzing"
    /\ FracLess(complexity, Frac(6, 100))
    /\ initialAnalysisParams # <<>>
    /\ initialAnalysisParams[1].mergeDistance = 25
    /\ initialAnalysisParams[1].circleRadiusMultiplier = 130

-----------------------------------------------------------------------------
(* The merger and the order of its input *)

\* how often region r is in the list rs
CountIn(r, rs) == Cardinality({k \in 1 .. Len(rs) : rs[k] = r})

\* two lists hold the same regions, each as often in one as in the other
SameMultiset(a, b) ==
    /\ Len(a) = Len(b)
    /\ \A k \in 1 .. Len(a) : CountIn(a[k], a) = CountIn(a[k], b)

\* C26: for a fixed mergeDistance, mergeNearbyRegions returns the same
\* multiset of regions (box and size) for every order of the regions it is
\* given; only the order of the list returned may differ.
C26_MergeConfluent ==
    pc = "filtered" =>
        \A f \in Orders(Len(filteredRegions)) :
            SameMultiset(mergeNearbyRegions(Permuted(filteredRegions, f), params.mergeDistance),
                         mergeNearbyRegions(filteredRegions, params.mergeDistance))

\* three regions of which some are merged, and an order of them for which
\* the merger returns its regions in another order
C26_Witness ==
    /\ pc = "filtered"
    /\ Len(filteredRegions) = 3
    /\ Len(mergeNearbyRegions(filteredRegions, params.mergeDistance)) = 2
    /\ \E f \in Orders(Len(filteredRegions)) :
           mergeNearbyRegions(Permuted(filteredRegions, f), params.mergeDistance)
               # mergeNearbyRegions(filteredRegions, params.mergeDistance)

-----------------------------------------------------------------------------
(* The game: generation, clicks, the timer and the win *)

\* C27 as stated: from the moment handleGenerate stores the temporary game
\* data, whose list of differences is empty, until analyzeDifferencesSafe
\* has settled, isLoading stays true and gameState stays 'idle', whenever the
\* images of the temporary data finish loading; the game is never
\* 'debugging', 'ready' or 'playing' with the temporary empty list.
C27_LoadingUntilAnalysed ==
    genPc \in {"converting", "analyzing"} =>
        /\ isLoading
        /\ gameState = "idle"

\* the differences that are found, by their places in the list
FoundIn(ds) == {k \in 1 .. Len(ds) : ds[k].foundTime # 0}

\* the differences not found yet whose circle holds the click
HitBy(ds, point, w, h) ==
    {k \in 1 .. Len(ds) :
        /\ ds[k].foundTime = 0
        /\ FracLeq(ClickDistance2(ds[k], point, w, h), ClickRadius2(ds[k], w, h))}

\* what a click at point does to the differences and the score
ClickMarksFirst(point) ==
    LET before == gameData[1].differences
        after == gameData'[1].differences
        hit == HitBy(before, point, gameData[1].original.naturalWidth,
                     gameData[1].original.naturalHeight)
    IN  /\ Len(after) = Len(before)
        /\ \A k \in 1 .. Len(before) :
               after[k] = before[k] \/ after[k] = [before[k] EXCEPT !.foundTime = Timestamp]
        /\ FoundIn(after) = FoundIn(before) \cup (IF hit = {} THEN {} ELSE {SetMin(hit)})
        /\ score' = score + Cardinality(FoundIn(after) \ FoundIn(before))
        /\ hit = {} => gameData' = gameData /\ score' = score
        /\ score = Cardinality(FoundIn(before)) =>
               score' = Cardinality(FoundIn(after)) /\ score' <= Len(after)

\* C28: a play session begun with Play Again starts with score 0 and every
\* foundTime cleared; a click on the canvas while gameState is 'playing'
\* keeps score equal to the number of differences whose foundTime is set,
\* which is no more than the number of differences; it marks at most one
\* difference, the first in list order that is not found yet and whose
\* circle holds the click (distance <= radius), and a click that hits none
\* changes neither the score nor a foundTime.
C28_ScoreConsistency ==
    /\ [][handlePlayAgain => score' = 0 /\ FoundIn(gameData'[1].differences) = {}]_vars
    /\ [][\A point \in ClickPoints : handleCanvasClick(point) => ClickMarksFirst(point)]_vars

\* of two circles that both hold the clicks so far, the first is found and the
\* second is not, and one click has missed
C28_Witness ==
    /\ gameState = "playing"
    /\ gameData # <<>>
    /\ Len(gameData[1].differences) = 2
    /\ FoundIn(gameData[1].differences) = {1}
    /\ score = 1
    /\ misses = 1

\* every difference of a list that is not empty is found
AllFound ==
    /\ gameData # <<>>
    /\ Len(gameData[1].differences) > 0
    /\ FoundIn(gameData[1].differences) = 1 .. Len(gameData[1].differences)

\* C29: while gameState is 'playing' timer is above 0 and changes only by a
\* tick, which lowers it by exactly 1, or by the return to the menu; timer is
\* never negative; the tick that brings it to 0 sets gameState to 'finished',
\* and a game finishes only so or by a win; while gameState is not 'playing'
\* timer changes only when a game is started or left; and a game that is
\* played does not stay 'playing' for ever.
C29_TimerExpiry ==
    /\ [](timer >= 0 /\ (gameState = "playing" => timer > 0))
    /\ [][gameState = "playing" /\ timer' # timer =>
              \/ timer' = timer - 1 /\ (timer' = 0 <=> gameState' = "finished")
              \/ timer' = 0 /\ view' = "config"]_vars
    /\ [][gameState = "playing" /\ gameState' = "finished" =>
              \/ timer = 1 /\ timer' = 0
              \/ AllFound /\ timer' = timer]_vars
    /\ [][gameState # "playing" /\ timer' # timer =>
              \/ gameState = "ready" /\ gameState' = "playing" /\ timer' >= MinTimer
              \/ timer' = 0 /\ view' = "config"]_vars
    /\ (gameState = "playing" /\ timer > 0) ~> (gameState # "playing")

\* the timer has run out on a game that was not won
C29_Witness ==
    /\ gameState = "finished"
    /\ timer = 0
    /\ gameData # <<>>
    /\ ~AllFound
    /\ score = 1

\* C30: whenever the game data comes to hold at least one difference with
\* every difference found, the win-condition effect is due and gameState
\* becomes 'finished'; with an empty list of differences a game finishes
\* only when the timer runs out.
C30_WinCondition ==
    /\ [][~AllFound /\ AllFound' => winCheck']_vars
    /\ (AllFound /\ winCheck) ~> (gameState = "finished")
    /\ [][gameState # "finished" /\ gameState' = "finished" /\ ~AllFound =>
              gameState = "playing" /\ timer = 1 /\ timer' = 0]_vars
    /\ [][gameData # <<>> /\ gameData' = gameData /\ Len(gameData[1].differences) = 0
              /\ gameState' = "finished" /\ gameState # "finished" => timer' = 0]_vars

\* a game is won before the timer has run out
C30_Witness ==
    /\ gameState = "finished"
    /\ AllFound
    /\ timer > 0
    /\ score = Len(gameData[1].differences)
    /\ ~winCheck

====
